---- MODULE Spec2Model ----
(***************************************************************************)
(* Model of the two service workers of the repository:                     *)
(*   - the security worker  (src/service-worker.js, "arminos-static-v1"),  *)
(*   - the static-shell PWA worker (src/unnamed/part_000, "planos-pwa-v1").*)
(* The state is the host's CacheStorage, the Cache objects that were       *)
(* deleted from it while the worker still held them, the worker's          *)
(* lifecycle, the one fetch handler in flight, the cache writes started    *)
(* but not awaited, the clients.matchAll calls not yet settled and the     *)
(* messages posted by the latest message event or settled matchAll call.   *)
(***************************************************************************)
EXTENDS Naturals, Sequences, FiniteSets, TLC

VARIABLES
    variant,        \* which of the two worker scripts is running
    caches,         \* CacheStorage: sequence of [name, entries], in creation order
    orphans,        \* entries of the Cache objects deleted from the storage while held
    swState,        \* position of the install / activate handlers
    installError,   \* why the install event's promise rejected, if it did
    skipWaitingCalled, \* self.skipWaiting() has been called
    claimed,        \* self.clients.claim() has resolved
    toDelete,       \* stale generations of the keys() snapshot not yet deleted
    active,         \* which worker the registration has as its active worker
    h,              \* the fetch handler in flight (or its last result)
    pendingPuts,    \* cache.put calls started and not awaited
    msgIn,          \* the last message event: its source and its data
    posted,         \* messages posted by the latest message event or matchAll settlement, in order
    pendingMatchAll \* clients.matchAll calls of the message listener not yet settled

vars == <<variant, caches, orphans, swState, installError, skipWaitingCalled, claimed,
          toDelete, active, h, pendingPuts, msgIn, posted, pendingMatchAll>>

lifecycleVars == <<swState, installError, skipWaitingCalled, claimed, toDelete, active>>

(***************************************************************************)
(* Bounds of the model                                                     *)
(***************************************************************************)
\* cache.put calls that may be in flight at once
MaxPendingPuts == 1

\* clients.matchAll calls that may be in flight at once
MaxPendingMatchAll == 2

\* pieces a string handed to the sanitiser is assembled from
MaxPieces == 3

(***************************************************************************)
(* Program constants                                                       *)
(***************************************************************************)
Variants == {"security", "shell"}

CACHE_NAME ==
    IF variant = "security" THEN "arminos-static-v1" ELSE "planos-pwa-v1"

ALLOWED_ORIGIN == "https://app.example"
OtherOrigin == "https://cdn.example"

SECURITY_HEADERS ==
    ("Content-Security-Policy" :>
        "default-src 'self'; script-src 'self'; object-src 'none'; base-uri 'self'; frame-ancestors 'none';")
    @@ ("X-Content-Type-Options" :> "nosniff")
    @@ ("X-Frame-Options" :> "DENY")
    @@ ("Referrer-Policy" :> "no-referrer")
    @@ ("Strict-Transport-Security" :> "max-age=63072000; includeSubDomains; preload")

\* A URL, as new URL(...) parses it: its origin and its pathname.
Url(o, p) == [origin |-> o, pathname |-> p]

\* Relative URLs resolve against the worker's own location (scope "/").
Resolve(rel) ==
    CASE rel = "./" -> Url(ALLOWED_ORIGIN, "/")
      [] rel = "./index.html" -> Url(ALLOWED_ORIGIN, "/index.html")
      [] rel = "./manifest.webmanifest" -> Url(ALLOWED_ORIGIN, "/manifest.webmanifest")
      [] rel = "./icons/icon-192.png" -> Url(ALLOWED_ORIGIN, "/icons/icon-192.png")
      [] rel = "./icons/icon-512.png" -> Url(ALLOWED_ORIGIN, "/icons/icon-512.png")
      [] rel = "./fonts/IRANSansX-Light.woff2" -> Url(ALLOWED_ORIGIN, "/fonts/IRANSansX-Light.woff2")
      [] rel = "./fonts/IRANSansX-Medium.woff2" -> Url(ALLOWED_ORIGIN, "/fonts/IRANSansX-Medium.woff2")
      [] rel = "./fonts/IRANSansX-DemiBold.woff2" -> Url(ALLOWED_ORIGIN, "/fonts/IRANSansX-DemiBold.woff2")
      [] rel = "./fonts/IRANSansX-Bold.woff2" -> Url(ALLOWED_ORIGIN, "/fonts/IRANSansX-Bold.woff2")
      [] rel = "./fonts/IRANSansX-ExtraBold.woff2" -> Url(ALLOWED_ORIGIN, "/fonts/IRANSansX-ExtraBold.woff2")
      [] rel = "/offline.html" -> Url(ALLOWED_ORIGIN, "/offline.html")

ASSETS ==
    << "./", "./index.html", "./manifest.webmanifest",
       "./icons/icon-192.png", "./icons/icon-512.png",
       "./fonts/IRANSansX-Light.woff2", "./fonts/IRANSansX-Medium.woff2",
       "./fonts/IRANSansX-DemiBold.woff2", "./fonts/IRANSansX-Bold.woff2",
       "./fonts/IRANSansX-ExtraBold.woff2" >>

AssetSet == {ASSETS[i] : i \in 1..Len(ASSETS)}

(***************************************************************************)
(* Headers, bodies and responses                                           *)
(***************************************************************************)
\* A Headers object: a function from the names present to their values.
NoHeaders == [k \in {} |-> ""]
HeadersDelete(hd, k) == [x \in (DOMAIN hd) \ {k} |-> hd[x]]
HeadersGet(hd, k) == IF k \in DOMAIN hd THEN hd[k] ELSE ""

\* Object.assign(a, b) on header maps: b's entries win.
ObjectAssign(a, b) ==
    [x \in (DOMAIN a) \cup (DOMAIN b) |-> IF x \in DOMAIN b THEN b[x] ELSE a[x]]

\* A string is the sequence of its characters.
\* A JSON value, as JSON.parse builds it: a string, a number, a boolean,
\* null, an array of values or an object from keys to values.
JString(s) == [str |-> s]
JNumber(n) == [num |-> n]
JBool(b) == [bool |-> b]
JNull == [null |-> TRUE]
JArray(items) == [arr |-> items]
JObject(fields) == [obj |-> fields]

\* The bytes of a body that is not a JSON document, as a sequence of chunks.
Text(chunks) == [raw |-> chunks]

\* A body: json says whether the bytes are a well-formed JSON document; text
\* is that document's value, or the bytes when they are not JSON.
Body(isJson, text) == [json |-> isJson, text |-> text]

Response(status, statusText, headers, body) ==
    [status |-> status, statusText |-> statusText, headers |-> headers, body |-> body]

\* response.ok
Ok(r) == r.status >= 200 /\ r.status <= 299

\* "no response": the value of an unset local or result
NoResponse == Response(0, "undefined", NoHeaders, Body(FALSE, Text(<<>>)))

(***************************************************************************)
(* Requests and the network                                                *)
(***************************************************************************)
Request(method, url, mode, accept) ==
    [method |-> method, url |-> url, mode |-> mode, accept |-> accept]

NoRequest == Request("", Url("", ""), "", "")

HtmlAccept == "text/html,application/xhtml+xml"
AnyAccept == "*/*"

\* (req.headers.get('accept') || '').includes('text/html')
AcceptsHtml(req) == req.accept = HtmlAccept

\* The URLs the pages of each application request.
SiteUrls ==
    IF variant = "security"
    THEN {Url(ALLOWED_ORIGIN, "/offline.html"), Url(ALLOWED_ORIGIN, "/app.js"),
          Url(ALLOWED_ORIGIN, "/api/calendar/events"), Url(OtherOrigin, "/lib.js")}
    ELSE {Url(ALLOWED_ORIGIN, "/index.html"), Url(OtherOrigin, "/lib.js")}

\* The fetch events a worker can receive: a navigation is always to a URL of
\* the worker's own scope and carries the browser's HTML Accept header.
Requests ==
    {Request(m, u, "navigate", HtmlAccept) :
        m \in {"GET", "POST"}, u \in {x \in SiteUrls : x.origin = ALLOWED_ORIGIN}}
    \cup
    {Request(m, u, "cors", a) :
        m \in {"GET", "POST"}, u \in SiteUrls, a \in {HtmlAccept, AnyAccept}}

StatusText(status) ==
    CASE status = 200 -> "OK"
      [] status = 404 -> "Not Found"
      [] status = 500 -> "Internal Server Error"
      [] status = 204 -> "No Content"
      [] OTHER -> ""

JsonType == "application/json; charset=utf-8"
ScriptType == "text/javascript"

\* response.headers.get('Content-Type').includes('application/json')
IncludesJson(contentType) == contentType = JsonType

\* The header sets and bodies a server answers with.
PlainHeaders == ("Content-Type" :> ScriptType)
LeakyHeaders ==
    ("Content-Type" :> ScriptType) @@ ("Server" :> "nginx/1.18")
    @@ ("X-Frame-Options" :> "SAMEORIGIN")
JsonHeaders == ("Content-Type" :> JsonType) @@ ("Server" :> "nginx/1.18")
JsonPlainHeaders == ("Content-Type" :> JsonType)

\* "<script>alert(1)</script>hello"
DirtyLeaf ==
    << "<", "s", "c", "r", "i", "p", "t", ">", "a", "l", "e", "r", "t", "(", "1", ")",
       "<", "/", "s", "c", "r", "i", "p", "t", ">", "h", "e", "l", "l", "o" >>

\* {"title": "<script>alert(1)</script>hello", "count": 3, "tags": ["javascript:evil()", null]}
DirtyDocument ==
    JObject(("title" :> JString(DirtyLeaf)) @@ ("count" :> JNumber(3))
            @@ ("tags" :> JArray(<< JString(<<"j", "a", "v", "a", "s", "c", "r", "i", "p", "t", ":",
                                              "e", "v", "i", "l", "(", ")">>),
                                    JNull >>)))

NetShapes ==
    { [headers |-> LeakyHeaders, body |-> Body(FALSE, Text(<<"v1">>))],
      [headers |-> JsonHeaders, body |-> Body(TRUE, DirtyDocument)],
      [headers |-> JsonPlainHeaders, body |-> Body(FALSE, Text(<<"{oops">>))] }

NetStatuses == {200, 404, 500}

NetResponses ==
    {Response(st, StatusText(st), sh.headers, sh.body) : st \in NetStatuses, sh \in NetShapes}

\* What fetch(request) settles with: a rejection or a response.
NetFailure == [failed |-> TRUE, resp |-> NoResponse]
NetOutcomes == {NetFailure} \cup {[failed |-> FALSE, resp |-> r] : r \in NetResponses}

(***************************************************************************)
(* CacheStorage                                                            *)
(***************************************************************************)
NoEntries == [u \in {} |-> NoResponse]

CacheNames(cs) == {cs[i].name : i \in 1..Len(cs)}

\* caches.open(name): creates the bucket when it does not exist
CachesOpen(cs, name) ==
    IF name \in CacheNames(cs) THEN cs
    ELSE Append(cs, [name |-> name, entries |-> NoEntries])

\* caches.delete(name)
CachesDelete(cs, name) == SelectSeq(cs, LAMBDA c : c.name # name)

\* the entries of a Cache object after put(request, response): the entry of
\* the request's URL is added or replaced
EntriesPut(entries, url, resp) ==
    [u \in (DOMAIN entries) \cup {url} |-> IF u = url THEN resp ELSE entries[u]]

\* cache.put(request, response) on the bucket called name
CachePut(cs, name, url, resp) ==
    [i \in 1..Len(cs) |->
        IF cs[i].name = name
        THEN [cs[i] EXCEPT !.entries = EntriesPut(cs[i].entries, url, resp)]
        ELSE cs[i]]

\* the response the network gives for an asset of the list
AssetResponse(u) ==
    Response(200, "OK", PlainHeaders, Body(FALSE, Text(<<"asset", u.pathname>>)))

\* cache.addAll(urls): every url is fetched and its response stored
CacheAddAll(cs, name, urls) ==
    [i \in 1..Len(cs) |->
        IF cs[i].name = name
        THEN [cs[i] EXCEPT !.entries =
                [u \in (DOMAIN cs[i].entries) \cup urls |->
                    IF u \in urls THEN AssetResponse(u) ELSE cs[i].entries[u]]]
        ELSE cs[i]]

EntriesOf(cs, name) ==
    IF name \in CacheNames(cs)
    THEN (CHOOSE c \in {cs[i] : i \in 1..Len(cs)} : c.name = name).entries
    ELSE NoEntries

\* cache.match(request) on one bucket: found?
CacheHas(cs, name, method, url) ==
    method = "GET" /\ url \in DOMAIN EntriesOf(cs, name)

CacheMatch(cs, name, method, url) ==
    IF CacheHas(cs, name, method, url) THEN EntriesOf(cs, name)[url] ELSE NoResponse

\* A Cache object, as caches.open resolves with it and as a handler or a put
\* holds it: the bucket called name of the storage (orphan = 0), or, once
\* caches.delete has removed that bucket from the storage, the orphan-th of
\* the deleted Cache objects, which its holders go on reading and writing.
Handle(name, orphan) == [name |-> name, orphan |-> orphan]
Live(name) == Handle(name, 0)
NoCache == Handle("", 0)

HandleEntries(cs, orph, c) ==
    IF c.orphan = 0 THEN EntriesOf(cs, c.name) ELSE orph[c.orphan]

\* cache.match(request) on a held Cache object
HandleHas(cs, orph, c, method, url) ==
    method = "GET" /\ url \in DOMAIN HandleEntries(cs, orph, c)

HandleMatch(cs, orph, c, method, url) ==
    IF HandleHas(cs, orph, c, method, url) THEN HandleEntries(cs, orph, c)[url]
    ELSE NoResponse

\* cache.put(request, response) on a held Cache object: the storage and the
\* deleted Cache objects after it
StoragePut(cs, c, url, resp) ==
    IF c.orphan = 0 THEN CachePut(cs, c.name, url, resp) ELSE cs

OrphansPut(orph, c, url, resp) ==
    IF c.orphan = 0 THEN orph
    ELSE [orph EXCEPT ![c.orphan] = EntriesPut(orph[c.orphan], url, resp)]

\* a deleted Cache object lives for as long as something holds it
Collect(orph, hh, puts) ==
    IF hh.cache.orphan = 0 /\ \A p \in puts : p.cache.orphan = 0 THEN <<>> ELSE orph

\* caches.match(request): the first bucket, in creation order, with an entry
CachesHas(cs, method, url) ==
    \E i \in 1..Len(cs) : CacheHas(cs, cs[i].name, method, url)

CachesMatch(cs, method, url) ==
    IF CachesHas(cs, method, url)
    THEN LET i == CHOOSE j \in 1..Len(cs) :
                    /\ CacheHas(cs, cs[j].name, method, url)
                    /\ \A k \in 1..(j - 1) : ~CacheHas(cs, cs[k].name, method, url)
         IN cs[i].entries[url]
    ELSE NoResponse

(***************************************************************************)
(* Response transformation (security worker)                               *)
(***************************************************************************)
SecurityHeaderNames == DOMAIN SECURITY_HEADERS

\* Object.entries(SECURITY_HEADERS).forEach(([k, v]) => headers.set(k, v))
SetSecurityHeaders(hd) == ObjectAssign(hd, SECURITY_HEADERS)

\* Statuses with which new Response(body, {status}) throws when it is given
\* a body: those outside 200..599 (RangeError) and the null body statuses
\* (TypeError).  response.arrayBuffer() is never null, so the constructor
\* of addSecurityHeadersToResponse always gets a body.
NullBodyStatuses == {101, 103, 204, 205, 304}

ResponseConstructorThrows(status) ==
    status < 200 \/ status > 599 \/ status \in NullBodyStatuses

\* addSecurityHeadersToResponse(response) rejects instead of resolving
Throws(response) == ResponseConstructorThrows(response.status)

addSecurityHeadersToResponse(response) ==
    LET newHeaders == HeadersDelete(SetSecurityHeaders(response.headers), "Server")
    IN Response(response.status, response.statusText, newHeaders, response.body)

\* Case folding of the /i flag on the letters the patterns name.
UpperToLower ==
    ("A" :> "a") @@ ("B" :> "b") @@ ("C" :> "c") @@ ("D" :> "d") @@ ("E" :> "e")
    @@ ("F" :> "f") @@ ("G" :> "g") @@ ("H" :> "h") @@ ("I" :> "i") @@ ("J" :> "j")
    @@ ("K" :> "k") @@ ("L" :> "l") @@ ("M" :> "m") @@ ("N" :> "n") @@ ("O" :> "o")
    @@ ("P" :> "p") @@ ("Q" :> "q") @@ ("R" :> "r") @@ ("S" :> "s") @@ ("T" :> "t")
    @@ ("U" :> "u") @@ ("V" :> "v") @@ ("W" :> "w") @@ ("X" :> "x") @@ ("Y" :> "y")
    @@ ("Z" :> "z")

Lower(c) == IF c \in DOMAIN UpperToLower THEN UpperToLower[c] ELSE c

\* \w
WordChars ==
    (DOMAIN UpperToLower) \cup {UpperToLower[c] : c \in DOMAIN UpperToLower}
    \cup {"0", "1", "2", "3", "4", "5", "6", "7", "8", "9", "_"}

\* \s: tab, line feed, vertical tab, form feed, carriage return, space,
\* U+00A0, U+1680, U+2000..U+200A, U+2028, U+2029, U+202F, U+205F, U+3000
\* and U+FEFF.  The vertical tab, U+00A0, U+1680 and U+FEFF stand as they
\* are; a character that cannot stand in a string of this module is written
\* by the name of its code point.
AsciiWhitespace == {" ", "\t", "\n", "\r", "\f", ""}

UnicodeWhitespace ==
    {" ", " ", "﻿",
     "U+2000", "U+2001", "U+2002", "U+2003", "U+2004", "U+2005",
     "U+2006", "U+2007", "U+2008", "U+2009", "U+200A",
     "U+2028", "U+2029", "U+202F", "U+205F", "U+3000"}

Whitespace == AsciiWhitespace \cup UnicodeWhitespace

\* the literal lit (lower case) stands in s at position i, whatever the case
StartsWith(s, i, lit) ==
    /\ i + Len(lit) - 1 <= Len(s)
    /\ \A k \in 1..Len(lit) : Lower(s[i + k - 1]) = lit[k]

\* first position from i on whose character is outside / inside the set
\* (Len(s) + 1 when there is none)
SkipIn(s, i, set) ==
    CHOOSE j \in i..(Len(s) + 1) :
        /\ j = Len(s) + 1 \/ s[j] \notin set
        /\ \A k \in i..(j - 1) : s[k] \in set

SkipNotIn(s, i, set) ==
    CHOOSE j \in i..(Len(s) + 1) :
        /\ j = Len(s) + 1 \/ s[j] \in set
        /\ \A k \in i..(j - 1) : s[k] \notin set

\* first position from i on where the literal stands (0 when nowhere)
IndexOf(s, i, lit) ==
    IF \E j \in i..Len(s) : StartsWith(s, j, lit)
    THEN CHOOSE j \in i..Len(s) :
            /\ StartsWith(s, j, lit)
            /\ \A k \in i..(j - 1) : ~StartsWith(s, k, lit)
    ELSE 0

ScriptOpen == <<"<", "s", "c", "r", "i", "p", "t">>
ScriptClose == <<"<", "/", "s", "c", "r", "i", "p", "t", ">">>
JavascriptScheme == <<"j", "a", "v", "a", "s", "c", "r", "i", "p", "t", ":">>

\* /<script[\s\S]*?>[\s\S]*?<\/script>/gi at position i: the last position of
\* the match, 0 when there is none.  Both quantifiers are lazy: the first ">"
\* after "<script", then the first "</script>" after it.
MatchScriptBlock(s, i) ==
    IF ~StartsWith(s, i, ScriptOpen) THEN 0
    ELSE LET gt == IndexOf(s, i + Len(ScriptOpen), <<">">>)
         IN IF gt = 0 THEN 0
            ELSE LET close == IndexOf(s, gt + 1, ScriptClose)
                 IN IF close = 0 THEN 0 ELSE close + Len(ScriptClose) - 1

\* /on\w+\s*=\s*(?:"[^"]*"|'[^']*'|[^\s>]+)/gi at position i
MatchOnHandler(s, i) ==
    IF ~StartsWith(s, i, <<"o", "n">>) THEN 0
    ELSE LET w == SkipIn(s, i + 2, WordChars)
             eq == SkipIn(s, w, Whitespace)
         IN IF w = i + 2 \/ eq > Len(s) \/ s[eq] # "=" THEN 0
            ELSE LET v == SkipIn(s, eq + 1, Whitespace)
                     dq == IndexOf(s, v + 1, <<"\"">>)
                     sq == IndexOf(s, v + 1, <<"'">>)
                     bare == SkipNotIn(s, v, Whitespace \cup {">"})
                 IN IF v > Len(s) THEN 0
                    ELSE IF s[v] = "\"" /\ dq # 0 THEN dq
                    ELSE IF s[v] = "'" /\ sq # 0 THEN sq
                    ELSE IF bare > v THEN bare - 1
                    ELSE 0

\* /javascript:/gi at position i
MatchJavascriptScheme(s, i) ==
    IF StartsWith(s, i, JavascriptScheme) THEN i + Len(JavascriptScheme) - 1 ELSE 0

MatchEnd(pattern, s, i) ==
    CASE pattern = "script" -> MatchScriptBlock(s, i)
      [] pattern = "handler" -> MatchOnHandler(s, i)
      [] pattern = "scheme" -> MatchJavascriptScheme(s, i)

\* s.replace(pattern, '') with the g flag, from position i on: matches are
\* taken left to right and do not overlap
RECURSIVE ReplaceAll(_, _, _)
ReplaceAll(pattern, s, i) ==
    IF i > Len(s) THEN <<>>
    ELSE LET e == MatchEnd(pattern, s, i)
         IN IF e # 0 THEN ReplaceAll(pattern, s, e + 1)
            ELSE <<s[i]>> \o ReplaceAll(pattern, s, i + 1)

sanitizeString(s) ==
    LET noScript == ReplaceAll("script", s, 1)
        noHandlers == ReplaceAll("handler", noScript, 1)
    IN ReplaceAll("scheme", noHandlers, 1)

\* out[k] = v on a fresh object literal creates the own property k, except
\* for k = "__proto__", which is the accessor of Object.prototype: the
\* assignment sets (or, for a value that is no object, does not set) the
\* prototype of out and creates no own property
OwnKeysAssigned(keys) == keys \ {"__proto__"}

RECURSIVE sanitizeJsonStrings(_)
sanitizeJsonStrings(obj) ==
    IF "null" \in DOMAIN obj THEN obj
    ELSE IF "str" \in DOMAIN obj THEN JString(sanitizeString(obj.str))
    ELSE IF "arr" \in DOMAIN obj
         THEN JArray([i \in DOMAIN obj.arr |-> sanitizeJsonStrings(obj.arr[i])])
    ELSE IF "obj" \in DOMAIN obj
         THEN JObject([k \in OwnKeysAssigned(DOMAIN obj.obj) |->
                            sanitizeJsonStrings(obj.obj[k])])
    ELSE obj

JsonParse(body) == body.text
JsonStringify(value) == Body(TRUE, value)

OfflinePage ==
    Response(503, "Service Unavailable",
             ObjectAssign(("Content-Type" :> "text/html"), SECURITY_HEADERS),
             Body(FALSE, Text(<<"<h1>Offline</h1>">>)))

NetworkErrorResponse ==
    Response(502, "",
             ObjectAssign(("Content-Type" :> "application/json"), SECURITY_HEADERS),
             JsonStringify(JObject("error" :> JString(
                 <<"N", "e", "t", "w", "o", "r", "k", " ", "e", "r", "r", "o", "r">>))))

\* handleApiCalendar: what it resolves with, given what fetch settled with
handleApiCalendar(n) ==
    IF n.failed THEN NetworkErrorResponse
    ELSE LET resp == n.resp
             contentType == HeadersGet(resp.headers, "Content-Type")
         IN IF Throws(resp) THEN NetworkErrorResponse   \* new Response throws into the catch
            ELSE IF IncludesJson(contentType)
            THEN IF ~resp.body.json
                 THEN NetworkErrorResponse   \* resp.json() throws into the catch
                 ELSE Response(resp.status, resp.statusText,
                               SetSecurityHeaders(resp.headers),
                               JsonStringify(sanitizeJsonStrings(JsonParse(resp.body))))
            ELSE addSecurityHeadersToResponse(resp)

(***************************************************************************)
(* Routing (security worker)                                               *)
(***************************************************************************)
isSameOrigin(req) == req.url.origin = ALLOWED_ORIGIN

SensitivePrefixPaths == {"/api/calendar/events"}

\* pathname.startsWith('/api/calendar')
StartsWithApiCalendar(pathname) == pathname \in SensitivePrefixPaths

\* FetchListener without the same-origin test
FetchListenerNoOriginCheck(req) ==
    IF req.method # "GET" THEN <<>>
    ELSE IF req.mode = "navigate" \/ AcceptsHtml(req) THEN <<"navigation">>
    ELSE IF StartsWithApiCalendar(req.url.pathname) THEN <<"api">>
    ELSE <<"default">>

\* FetchListener with the sensitive-API test ahead of the navigation test
FetchListenerApiFirst(req) ==
    IF req.method # "GET" \/ ~isSameOrigin(req) THEN <<>>
    ELSE IF StartsWithApiCalendar(req.url.pathname) THEN <<"api">>
    ELSE IF req.mode = "navigate" \/ AcceptsHtml(req) THEN <<"navigation">>
    ELSE <<"default">>

\* The fetch listener: the handlers it passes to event.respondWith, in order.
FetchListener(req) ==
    IF req.method # "GET" \/ ~isSameOrigin(req) THEN <<>>
    ELSE IF req.mode = "navigate" \/ AcceptsHtml(req) THEN <<"navigation">>
    ELSE IF StartsWithApiCalendar(req.url.pathname) THEN <<"api">>
    ELSE <<"default">>

\* What the origin's server and the other origins answer: JSON documents,
\* well-formed or not, and scripts under the sensitive prefix, scripts
\* everywhere else.
Served(url) ==
    IF StartsWithApiCalendar(url.pathname) THEN NetOutcomes
    ELSE {n \in NetOutcomes : n.failed \/ n.resp.headers = LeakyHeaders}

(***************************************************************************)
(* Initial state                                                           *)
(***************************************************************************)
StaleNames == {"app-v0", "tmp-cache"}

\* what an earlier version of the application left in a bucket
OldResponse == Response(200, "OK", PlainHeaders, Body(FALSE, Text(<<"v0">>)))
OldEntries ==
    (Url(ALLOWED_ORIGIN, "/app.js") :> OldResponse)
    @@ (Url(ALLOWED_ORIGIN, "/index.html") :> OldResponse)
    @@ (Url(ALLOWED_ORIGIN, "/api/calendar/events") :> OldResponse)

\* sequences without repetition over a set of names
RECURSIVE Orderings(_)
Orderings(S) ==
    IF S = {} THEN {<<>>}
    ELSE UNION {{<<x>> \o t : t \in Orderings(S \ {x})} : x \in S}

\* The storage the worker finds: any buckets of earlier generations, in any
\* order of creation, and possibly a bucket that already has its own name.
InitialCaches ==
    UNION {
        {[i \in 1..Len(o) |->
            [name |-> o[i],
             entries |-> IF o[i] \in StaleNames THEN OldEntries ELSE e]] :
                o \in Orderings(S), e \in {NoEntries, OldEntries}} :
        S \in SUBSET (StaleNames \cup {CACHE_NAME})}

NoMessage == [source |-> "none", data |-> [primitive |-> "null"]]

NoNet == [failed |-> FALSE, resp |-> NoResponse]

\* cn: the CACHE_NAME of the script whose fetch listener runs the handler;
\* cache: the Cache object the handler holds (const cache)
Idle ==
    [pc |-> "idle", calls |-> <<>>, req |-> NoRequest, net |-> NoNet,
     hit |-> FALSE, cached |-> NoResponse, out |-> NoResponse, outcome |-> "none",
     cn |-> CACHE_NAME, cache |-> NoCache]

Init ==
    /\ variant \in Variants
    /\ caches \in InitialCaches
    /\ orphans = <<>>
    /\ swState = "parsed"
    /\ installError = "none"
    /\ skipWaitingCalled = FALSE
    /\ claimed = FALSE
    /\ toDelete = {}
    /\ active \in {"none", "previous"}
    /\ h = Idle
    /\ pendingPuts = {}
    /\ msgIn = NoMessage
    /\ posted = <<>>
    /\ pendingMatchAll = <<>>

\* caches.delete(k): the bucket leaves the storage; the handler and the puts
\* that hold its Cache object keep it
DeleteBucket(k) ==
    LET held == /\ k \in CacheNames(caches)
                /\ (h.cache = Live(k) \/ \E p \in pendingPuts : p.cache = Live(k))
        i == Len(orphans) + 1
        kept(c) == IF c = Live(k) THEN Handle(k, i) ELSE c
    IN /\ caches' = CachesDelete(caches, k)
       /\ orphans' = IF held THEN Append(orphans, EntriesOf(caches, k)) ELSE orphans
       /\ h' = IF held THEN [h EXCEPT !.cache = kept(h.cache)] ELSE h
       /\ pendingPuts' = IF held THEN {[p EXCEPT !.cache = kept(p.cache)] : p \in pendingPuts}
                         ELSE pendingPuts

(***************************************************************************)
(* Lifecycle of the security worker                                        *)
(***************************************************************************)
\* install listener: skipWaiting(), then waitUntil(caches.open(CACHE_NAME))
SecInstall ==
    /\ variant = "security"
    /\ swState = "parsed"
    /\ skipWaitingCalled' = TRUE
    /\ swState' = "install_open"
    /\ UNCHANGED <<variant, installError, caches, orphans, claimed, toDelete, active, h, pendingPuts, msgIn, posted, pendingMatchAll>>

\* caches.open(CACHE_NAME) settles: the install event's promise settles with it
SecInstallOpened(ok) ==
    /\ variant = "security"
    /\ swState = "install_open"
    /\ IF ok
       THEN /\ caches' = CachesOpen(caches, CACHE_NAME)
            /\ installError' = installError
            /\ swState' = "installed"
       ELSE /\ caches' = caches
            /\ installError' = "OpenError"
            /\ swState' = "redundant"
    /\ UNCHANGED <<variant, orphans, skipWaitingCalled, claimed, toDelete, active, h, pendingPuts, msgIn, posted, pendingMatchAll>>

\* SecActivate whose handler goes straight to caches.keys()
SecActivateSkipsClaim ==
    /\ variant = "security"
    /\ swState = "installed"
    /\ active' = "new"
    /\ swState' = "act_keys"
    /\ UNCHANGED <<variant, installError, caches, orphans, skipWaitingCalled, claimed, toDelete, h, pendingPuts, msgIn, posted, pendingMatchAll>>

\* the host activates the installed worker and dispatches the activate event
SecActivate ==
    /\ variant = "security"
    /\ swState = "installed"
    /\ active' = "new"
    /\ swState' = "act_claim"
    /\ UNCHANGED <<variant, installError, caches, orphans, skipWaitingCalled, claimed, toDelete, h, pendingPuts, msgIn, posted, pendingMatchAll>>

\* await self.clients.claim()
SecClaim ==
    /\ variant = "security"
    /\ swState = "act_claim"
    /\ claimed' = TRUE
    /\ swState' = "act_keys"
    /\ UNCHANGED <<variant, installError, caches, orphans, skipWaitingCalled, toDelete, active, h, pendingPuts, msgIn, posted, pendingMatchAll>>

\* SecKeys with a filter that keeps no key
SecKeysDeletesNothing ==
    /\ variant = "security"
    /\ swState = "act_keys"
    /\ toDelete' = {}
    /\ swState' = "act_delete"
    /\ UNCHANGED <<variant, installError, caches, orphans, skipWaitingCalled, claimed, active, h, pendingPuts, msgIn, posted, pendingMatchAll>>

\* const keys = await caches.keys(); keys.filter(k => k !== CACHE_NAME)
SecKeys ==
    /\ variant = "security"
    /\ swState = "act_keys"
    /\ toDelete' = {k \in CacheNames(caches) : k # CACHE_NAME}
    /\ swState' = "act_delete"
    /\ UNCHANGED <<variant, installError, caches, orphans, skipWaitingCalled, claimed, active, h, pendingPuts, msgIn, posted, pendingMatchAll>>

\* one caches.delete(k) of the Promise.all
SecDelete(k) ==
    /\ variant = "security"
    /\ swState = "act_delete"
    /\ k \in toDelete
    /\ DeleteBucket(k)
    /\ toDelete' = toDelete \ {k}
    /\ UNCHANGED <<variant, installError, swState, skipWaitingCalled, claimed, active, msgIn, posted, pendingMatchAll>>

\* Promise.all resolves: the activate event's promise resolves
SecActivated ==
    /\ variant = "security"
    /\ swState = "act_delete"
    /\ toDelete = {}
    /\ swState' = "activated"
    /\ UNCHANGED <<variant, installError, caches, orphans, skipWaitingCalled, claimed, toDelete, active, h, pendingPuts, msgIn, posted, pendingMatchAll>>

(***************************************************************************)
(* Lifecycle of the static-shell worker                                    *)
(***************************************************************************)
AssetUrls == {Resolve(a) : a \in AssetSet}

\* install listener: waitUntil(caches.open(...).then(addAll).then(skipWaiting))
ShellInstall ==
    /\ variant = "shell"
    /\ swState = "parsed"
    /\ swState' = "install_open"
    /\ UNCHANGED <<variant, installError, caches, orphans, skipWaitingCalled, claimed, toDelete, active, h, pendingPuts, msgIn, posted, pendingMatchAll>>

ShellInstallOpened(ok) ==
    /\ variant = "shell"
    /\ swState = "install_open"
    /\ IF ok
       THEN /\ caches' = CachesOpen(caches, CACHE_NAME)
            /\ installError' = installError
            /\ swState' = "install_addAll"
       ELSE /\ caches' = caches
            /\ installError' = "OpenError"
            /\ swState' = "redundant"
    /\ UNCHANGED <<variant, orphans, skipWaitingCalled, claimed, toDelete, active, h, pendingPuts, msgIn, posted, pendingMatchAll>>

\* ShellAddAll that stores the assets it could fetch when others failed
ShellAddAllPartial(bad) ==
    /\ variant = "shell"
    /\ swState = "install_addAll"
    /\ caches' = CacheAddAll(caches, CACHE_NAME,
                             {Resolve(a) : a \in AssetSet \ bad})
    /\ IF bad = {}
       THEN /\ skipWaitingCalled' = TRUE
            /\ installError' = installError
            /\ swState' = "install_skipWaiting"
       ELSE /\ skipWaitingCalled' = skipWaitingCalled
            /\ installError' = "AssetFetchError"
            /\ swState' = "redundant"
    /\ UNCHANGED <<variant, orphans, claimed, toDelete, active, h, pendingPuts, msgIn, posted, pendingMatchAll>>

\* ShellAddAll that goes on to self.skipWaiting() whether addAll succeeded or not
ShellAddAllAlwaysSkipsWaiting(bad) ==
    /\ variant = "shell"
    /\ swState = "install_addAll"
    /\ skipWaitingCalled' = TRUE
    /\ IF bad = {}
       THEN /\ caches' = CacheAddAll(caches, CACHE_NAME, AssetUrls)
            /\ installError' = installError
            /\ swState' = "install_skipWaiting"
       ELSE /\ caches' = caches
            /\ installError' = "AssetFetchError"
            /\ swState' = "redundant"
    /\ UNCHANGED <<variant, orphans, claimed, toDelete, active, h, pendingPuts, msgIn, posted, pendingMatchAll>>

\* cache.addAll(ASSETS) settles; bad is the set of assets whose fetch failed or
\* was not ok.  addAll stores all the responses or none; on success the chain
\* calls self.skipWaiting() and waits for the promise it returns.
ShellAddAll(bad) ==
    /\ variant = "shell"
    /\ swState = "install_addAll"
    /\ IF bad = {}
       THEN /\ caches' = CacheAddAll(caches, CACHE_NAME, AssetUrls)
            /\ skipWaitingCalled' = TRUE
            /\ installError' = installError
            /\ swState' = "install_skipWaiting"
       ELSE /\ caches' = caches
            /\ skipWaitingCalled' = skipWaitingCalled
            /\ installError' = "AssetFetchError"
            /\ swState' = "redundant"
    /\ UNCHANGED <<variant, orphans, claimed, toDelete, active, h, pendingPuts, msgIn, posted, pendingMatchAll>>

\* the promise of self.skipWaiting() resolves: the install event's promise resolves
ShellSkipWaitingResolved ==
    /\ variant = "shell"
    /\ swState = "install_skipWaiting"
    /\ swState' = "installed"
    /\ UNCHANGED <<variant, installError, caches, orphans, skipWaitingCalled, claimed, toDelete, active, h, pendingPuts, msgIn, posted, pendingMatchAll>>

ShellActivate ==
    /\ variant = "shell"
    /\ swState = "installed"
    /\ active' = "new"
    /\ swState' = "act_keys"
    /\ UNCHANGED <<variant, installError, caches, orphans, skipWaitingCalled, claimed, toDelete, h, pendingPuts, msgIn, posted, pendingMatchAll>>

\* caches.keys().then(keys => Promise.all(keys.map(k => k === CACHE_NAME ? null : delete)))
ShellKeys ==
    /\ variant = "shell"
    /\ swState = "act_keys"
    /\ toDelete' = {k \in CacheNames(caches) : k # CACHE_NAME}
    /\ swState' = "act_delete"
    /\ UNCHANGED <<variant, installError, caches, orphans, skipWaitingCalled, claimed, active, h, pendingPuts, msgIn, posted, pendingMatchAll>>

ShellDelete(k) ==
    /\ variant = "shell"
    /\ swState = "act_delete"
    /\ k \in toDelete
    /\ DeleteBucket(k)
    /\ toDelete' = toDelete \ {k}
    /\ UNCHANGED <<variant, installError, swState, skipWaitingCalled, claimed, active, msgIn, posted, pendingMatchAll>>

\* Promise.all resolves: the chain goes on to self.clients.claim()
ShellDeletesDone ==
    /\ variant = "shell"
    /\ swState = "act_delete"
    /\ toDelete = {}
    /\ swState' = "act_claim"
    /\ UNCHANGED <<variant, installError, caches, orphans, skipWaitingCalled, claimed, toDelete, active, h, pendingPuts, msgIn, posted, pendingMatchAll>>

\* self.clients.claim() resolves: the activate event's promise resolves
ShellClaim ==
    /\ variant = "shell"
    /\ swState = "act_claim"
    /\ claimed' = TRUE
    /\ swState' = "activated"
    /\ UNCHANGED <<variant, installError, caches, orphans, skipWaitingCalled, toDelete, active, h, pendingPuts, msgIn, posted, pendingMatchAll>>

(***************************************************************************)
(* Fetch handling of the security worker                                   *)
(***************************************************************************)
Route(hh) == IF hh.calls = <<>> THEN "passthrough" ELSE Head(hh.calls)

\* the handler's promise settles; its locals are gone
Done(hh, n, hit, cached, out, outcome) ==
    [hh EXCEPT !.pc = "done", !.net = n, !.hit = hit, !.cached = cached,
               !.out = out, !.outcome = outcome, !.cache = NoCache]

\* a cache write started and not awaited, for the bucket called name: cache
\* is the Cache object it writes to, NoCache while the caches.open it is
\* chained on has not settled
Put(name, url, resp, cache) == [name |-> name, url |-> url, resp |-> resp, cache |-> cache]

\* The fetch listener runs for a new fetch event and returns: the handler it
\* passed to respondWith has run up to its first await, which is
\* caches.open(CACHE_NAME) in networkFirstWithSecurity and fetch(request) in
\* the other two.
SecFetchEvent(req) ==
    /\ variant = "security"
    /\ swState = "activated"
    /\ h.pc \in {"idle", "done"}
    /\ LET calls == FetchListener(req)
       IN h' = [Idle EXCEPT !.pc = IF calls = <<>> THEN "browser"
                                   ELSE IF Head(calls) = "default" THEN "open"
                                   ELSE "fetch",
                            !.calls = calls, !.req = req]
    /\ UNCHANGED <<variant, caches, orphans, lifecycleVars, pendingPuts, msgIn, posted, pendingMatchAll>>

\* No respondWith: the browser performs the request itself.
BrowserFetch(n) ==
    /\ variant = "security"
    /\ h.pc = "browser"
    /\ h' = Done(h, n, FALSE, NoResponse, n.resp,
                 IF n.failed THEN "network_error" ELSE "passthrough")
    /\ UNCHANGED <<variant, caches, orphans, lifecycleVars, pendingPuts, msgIn, posted, pendingMatchAll>>

\* handleNavigationRequest, the try block: fetch(request) settles; a response
\* below 500 goes to addSecurityHeadersToResponse, which awaits its body
NavNetwork(n) ==
    /\ variant = "security"
    /\ h.pc = "fetch"
    /\ Route(h) = "navigation"
    /\ h' = [h EXCEPT !.pc = IF ~n.failed /\ ~(n.resp.status >= 500)
                             THEN "nav_body" ELSE "nav_fallback",
                      !.net = n]
    /\ UNCHANGED <<variant, caches, orphans, lifecycleVars, pendingPuts, msgIn, posted, pendingMatchAll>>

\* handleNavigationRequest, the try block: response.arrayBuffer() resolves
\* and the response is rebuilt; an exception of the constructor is caught
NavHardened ==
    /\ variant = "security"
    /\ h.pc = "nav_body"
    /\ h' = IF Throws(h.net.resp)
            THEN [h EXCEPT !.pc = "nav_fallback"]
            ELSE Done(h, h.net, FALSE, NoResponse,
                      addSecurityHeadersToResponse(h.net.resp), "response")
    /\ UNCHANGED <<variant, caches, orphans, lifecycleVars, pendingPuts, msgIn, posted, pendingMatchAll>>

\* handleNavigationRequest, the catch block: caches.open(CACHE_NAME) settles;
\* a rejection there is the handler's rejection
NavOpen(ok) ==
    /\ variant = "security"
    /\ h.pc = "nav_fallback"
    /\ IF ok
       THEN /\ caches' = CachesOpen(caches, h.cn)
            /\ h' = [h EXCEPT !.pc = "nav_match", !.cache = Live(h.cn)]
       ELSE /\ caches' = caches
            /\ h' = Done(h, h.net, FALSE, NoResponse, NoResponse, "rejected")
    /\ UNCHANGED <<variant, orphans, lifecycleVars, pendingPuts, msgIn, posted, pendingMatchAll>>

\* handleNavigationRequest, the catch block: cache.match('/offline.html')
\* resolves, on what the Cache object holds by then; a cached page goes to
\* addSecurityHeadersToResponse, which awaits its body
NavFallback ==
    /\ variant = "security"
    /\ h.pc = "nav_match"
    /\ LET url == Resolve("/offline.html")
           hit == HandleHas(caches, orphans, h.cache, "GET", url)
           cached == HandleMatch(caches, orphans, h.cache, "GET", url)
       IN h' = IF hit
               THEN [h EXCEPT !.pc = "nav_cached_body", !.hit = hit, !.cached = cached]
               ELSE Done(h, h.net, hit, cached, OfflinePage, "response")
    /\ orphans' = Collect(orphans, h', pendingPuts)
    /\ UNCHANGED <<variant, caches, lifecycleVars, pendingPuts, msgIn, posted, pendingMatchAll>>

\* handleNavigationRequest, the catch block: the body of the cached page has
\* been read and the response is rebuilt; an exception of the constructor is
\* the handler's rejection
NavCachedHardened ==
    /\ variant = "security"
    /\ h.pc = "nav_cached_body"
    /\ h' = IF Throws(h.cached)
            THEN Done(h, h.net, h.hit, h.cached, NoResponse, "rejected")
            ELSE Done(h, h.net, h.hit, h.cached,
                      addSecurityHeadersToResponse(h.cached), "response")
    /\ orphans' = Collect(orphans, h', pendingPuts)
    /\ UNCHANGED <<variant, caches, lifecycleVars, pendingPuts, msgIn, posted, pendingMatchAll>>

\* handleApiCalendar: fetch(request) settles; a rejection is answered from the
\* catch block, a response has its body read (resp.json() or arrayBuffer())
ApiCalendar(n) ==
    /\ variant = "security"
    /\ h.pc = "fetch"
    /\ Route(h) = "api"
    /\ h' = IF n.failed
            THEN Done(h, n, FALSE, NoResponse, handleApiCalendar(n), "response")
            ELSE [h EXCEPT !.pc = "api_body", !.net = n]
    /\ UNCHANGED <<variant, caches, orphans, lifecycleVars, pendingPuts, msgIn, posted, pendingMatchAll>>

\* handleApiCalendar: the body has been read; the handler returns the
\* sanitized or hardened response, or the answer of its catch block
ApiBodyRead ==
    /\ variant = "security"
    /\ h.pc = "api_body"
    /\ h' = Done(h, h.net, FALSE, NoResponse, handleApiCalendar(h.net), "response")
    /\ UNCHANGED <<variant, caches, orphans, lifecycleVars, pendingPuts, msgIn, posted, pendingMatchAll>>

\* networkFirstWithSecurity: const cache = await caches.open(CACHE_NAME)
\* settles; the await is outside the try, a rejection is the handler's
DefaultOpen(ok) ==
    /\ variant = "security"
    /\ h.pc = "open"
    /\ IF ok
       THEN /\ caches' = CachesOpen(caches, h.cn)
            /\ h' = [h EXCEPT !.pc = "fetch", !.cache = Live(h.cn)]
       ELSE /\ caches' = caches
            /\ h' = Done(h, NoNet, FALSE, NoResponse, NoResponse, "rejected")
    /\ UNCHANGED <<variant, orphans, lifecycleVars, pendingPuts, msgIn, posted, pendingMatchAll>>

\* where networkFirstWithSecurity goes on when fetch has settled with n
AfterFetch(n) ==
    IF n.failed THEN "catch_match" ELSE IF Ok(n.resp) THEN "body" ELSE "match"

\* DefaultNetwork without the cache.put
DefaultNetworkNoPut(n) ==
    /\ variant = "security"
    /\ h.pc = "fetch"
    /\ Route(h) = "default"
    /\ h' = [h EXCEPT !.pc = AfterFetch(n), !.net = n]
    /\ UNCHANGED <<variant, caches, orphans, lifecycleVars, pendingPuts, msgIn, posted, pendingMatchAll>>

\* DefaultNetwork that puts every response, ok or not
DefaultNetworkPutsAnyStatus(n) ==
    /\ variant = "security"
    /\ h.pc = "fetch"
    /\ Route(h) = "default"
    /\ IF ~n.failed
       THEN /\ Cardinality(pendingPuts) < MaxPendingPuts
            /\ pendingPuts' = pendingPuts \cup {Put(h.cn, h.req.url, n.resp, h.cache)}
       ELSE pendingPuts' = pendingPuts
    /\ h' = [h EXCEPT !.pc = AfterFetch(n), !.net = n]
    /\ UNCHANGED <<variant, caches, orphans, lifecycleVars, msgIn, posted, pendingMatchAll>>

\* networkFirstWithSecurity, fetch settles: a rejection goes to the catch
\* block; for an ok response cache.put is called on the Cache object (not
\* awaited) and addSecurityHeadersToResponse awaits the body; for any other
\* response the Cache object is consulted
DefaultNetwork(n) ==
    /\ variant = "security"
    /\ h.pc = "fetch"
    /\ Route(h) = "default"
    /\ IF ~n.failed /\ Ok(n.resp)
       THEN /\ Cardinality(pendingPuts) < MaxPendingPuts
            /\ pendingPuts' = pendingPuts \cup {Put(h.cn, h.req.url, n.resp, h.cache)}
       ELSE pendingPuts' = pendingPuts
    /\ h' = [h EXCEPT !.pc = AfterFetch(n), !.net = n]
    /\ UNCHANGED <<variant, caches, orphans, lifecycleVars, msgIn, posted, pendingMatchAll>>

\* networkFirstWithSecurity, the ok response: response.arrayBuffer() resolves
\* and the response is rebuilt; an exception of the constructor is caught
DefaultHardened ==
    /\ variant = "security"
    /\ h.pc = "body"
    /\ h' = IF Throws(h.net.resp)
            THEN [h EXCEPT !.pc = "catch_match"]
            ELSE Done(h, h.net, FALSE, NoResponse,
                      addSecurityHeadersToResponse(h.net.resp), "response")
    /\ orphans' = Collect(orphans, h', pendingPuts)
    /\ UNCHANGED <<variant, caches, lifecycleVars, pendingPuts, msgIn, posted, pendingMatchAll>>

\* networkFirstWithSecurity, a response that is not ok: cache.match(request)
\* on the held Cache object resolves; an entry goes to
\* addSecurityHeadersToResponse, without one the response is returned as it is
DefaultMatch ==
    /\ variant = "security"
    /\ h.pc = "match"
    /\ LET hit == HandleHas(caches, orphans, h.cache, h.req.method, h.req.url)
           cached == HandleMatch(caches, orphans, h.cache, h.req.method, h.req.url)
       IN h' = IF hit
               THEN [h EXCEPT !.pc = "cached_body", !.hit = hit, !.cached = cached]
               ELSE Done(h, h.net, hit, cached, h.net.resp, "response")
    /\ orphans' = Collect(orphans, h', pendingPuts)
    /\ UNCHANGED <<variant, caches, lifecycleVars, pendingPuts, msgIn, posted, pendingMatchAll>>

\* networkFirstWithSecurity, the try block: the body of the cached entry has
\* been read and the response is rebuilt; an exception of the constructor is
\* caught
DefaultCachedHardened ==
    /\ variant = "security"
    /\ h.pc = "cached_body"
    /\ h' = IF Throws(h.cached)
            THEN [h EXCEPT !.pc = "catch_match"]
            ELSE Done(h, h.net, h.hit, h.cached,
                      addSecurityHeadersToResponse(h.cached), "response")
    /\ orphans' = Collect(orphans, h', pendingPuts)
    /\ UNCHANGED <<variant, caches, lifecycleVars, pendingPuts, msgIn, posted, pendingMatchAll>>

\* DefaultCatchMatch that never finds an entry
DefaultCatchMatchIgnoresCache ==
    /\ variant = "security"
    /\ h.pc = "catch_match"
    /\ h' = Done(h, h.net, FALSE, NoResponse, NoResponse, "rejected")
    /\ orphans' = Collect(orphans, h', pendingPuts)
    /\ UNCHANGED <<variant, caches, lifecycleVars, pendingPuts, msgIn, posted, pendingMatchAll>>

\* networkFirstWithSecurity, the catch block: cache.match(request) on the
\* held Cache object resolves, on what the object holds by then; an entry
\* goes to addSecurityHeadersToResponse, without one the error is thrown again
DefaultCatchMatch ==
    /\ variant = "security"
    /\ h.pc = "catch_match"
    /\ LET hit == HandleHas(caches, orphans, h.cache, h.req.method, h.req.url)
           cached == HandleMatch(caches, orphans, h.cache, h.req.method, h.req.url)
       IN h' = IF hit
               THEN [h EXCEPT !.pc = "catch_body", !.hit = hit, !.cached = cached]
               ELSE Done(h, h.net, hit, cached, NoResponse, "rejected")
    /\ orphans' = Collect(orphans, h', pendingPuts)
    /\ UNCHANGED <<variant, caches, lifecycleVars, pendingPuts, msgIn, posted, pendingMatchAll>>

\* networkFirstWithSecurity, the catch block: the body of the cached entry
\* has been read and the response is rebuilt; an exception of the constructor
\* is the handler's rejection
DefaultCatchHardened ==
    /\ variant = "security"
    /\ h.pc = "catch_body"
    /\ h' = IF Throws(h.cached)
            THEN Done(h, h.net, h.hit, h.cached, NoResponse, "rejected")
            ELSE Done(h, h.net, h.hit, h.cached,
                      addSecurityHeadersToResponse(h.cached), "response")
    /\ orphans' = Collect(orphans, h', pendingPuts)
    /\ UNCHANGED <<variant, caches, lifecycleVars, pendingPuts, msgIn, posted, pendingMatchAll>>

\* cache.put(request, response.clone()).catch(() => {}) settles
SecPutSettles(p, ok) ==
    /\ variant = "security"
    /\ p \in pendingPuts
    /\ p.cache # NoCache
    /\ caches' = IF ok THEN StoragePut(caches, p.cache, p.url, p.resp) ELSE caches
    /\ pendingPuts' = pendingPuts \ {p}
    /\ orphans' = Collect(IF ok THEN OrphansPut(orphans, p.cache, p.url, p.resp) ELSE orphans,
                          h, pendingPuts')
    /\ UNCHANGED <<variant, lifecycleVars, h, msgIn, posted, pendingMatchAll>>

(***************************************************************************)
(* Fetch handling of the static-shell worker                               *)
(***************************************************************************)
ShellFetchListener(req) ==
    IF req.mode = "navigate" THEN <<"shell_nav">> ELSE <<"shell_other">>

ShellFetchEvent(req) ==
    /\ variant = "shell"
    /\ swState = "activated"
    /\ h.pc \in {"idle", "done"}
    /\ h' = [Idle EXCEPT !.pc = "match", !.calls = ShellFetchListener(req), !.req = req]
    /\ UNCHANGED <<variant, caches, orphans, lifecycleVars, pendingPuts, msgIn, posted, pendingMatchAll>>

\* caches.match("./index.html").then(cached => cached || fetch(req))
ShellNavMatch ==
    /\ variant = "shell"
    /\ h.pc = "match"
    /\ Route(h) = "shell_nav"
    /\ LET url == Resolve("./index.html")
           hit == CachesHas(caches, "GET", url)
           cached == CachesMatch(caches, "GET", url)
       IN h' = IF hit
               THEN Done(h, NoNet, hit, cached, cached, "response")
               ELSE [h EXCEPT !.pc = "fetch"]
    /\ UNCHANGED <<variant, caches, orphans, lifecycleVars, pendingPuts, msgIn, posted, pendingMatchAll>>

\* fetch(req) of the navigation branch settles
ShellNavNetwork(n) ==
    /\ variant = "shell"
    /\ h.pc = "fetch"
    /\ Route(h) = "shell_nav"
    /\ h' = Done(h, n, FALSE, NoResponse, n.resp,
                 IF n.failed THEN "rejected" ELSE "response")
    /\ UNCHANGED <<variant, caches, orphans, lifecycleVars, pendingPuts, msgIn, posted, pendingMatchAll>>

\* caches.match(req).then(cached => { if (cached) return cached; ...
ShellOtherMatch ==
    /\ variant = "shell"
    /\ h.pc = "match"
    /\ Route(h) = "shell_other"
    /\ LET hit == CachesHas(caches, h.req.method, h.req.url)
           cached == CachesMatch(caches, h.req.method, h.req.url)
       IN h' = IF hit
               THEN Done(h, NoNet, hit, cached, cached, "response")
               ELSE [h EXCEPT !.pc = "fetch"]
    /\ UNCHANGED <<variant, caches, orphans, lifecycleVars, pendingPuts, msgIn, posted, pendingMatchAll>>

\* fetch(req).then(res => { ...put...; return res }).catch(() => cached)
ShellOtherNetwork(n) ==
    /\ variant = "shell"
    /\ h.pc = "fetch"
    /\ Route(h) = "shell_other"
    /\ IF n.failed
       THEN /\ h' = Done(h, n, FALSE, NoResponse, NoResponse, "undefined")
            /\ pendingPuts' = pendingPuts
       ELSE /\ h' = Done(h, n, FALSE, NoResponse, n.resp, "response")
            /\ IF h.req.method = "GET" /\ h.req.url.origin = ALLOWED_ORIGIN
               THEN /\ Cardinality(pendingPuts) < MaxPendingPuts
                    /\ pendingPuts' = pendingPuts \cup {Put(h.cn, h.req.url, n.resp, NoCache)}
               ELSE pendingPuts' = pendingPuts
    /\ UNCHANGED <<variant, caches, orphans, lifecycleVars, msgIn, posted, pendingMatchAll>>

\* caches.open(CACHE_NAME) of the write chain settles: the bucket exists and
\* cache.put(req, copy) is called; when it rejects, put is never called
ShellPutOpened(p, ok) ==
    /\ variant = "shell"
    /\ p \in pendingPuts
    /\ p.cache = NoCache
    /\ IF ok
       THEN /\ caches' = CachesOpen(caches, p.name)
            /\ pendingPuts' = (pendingPuts \ {p}) \cup {[p EXCEPT !.cache = Live(p.name)]}
       ELSE /\ caches' = caches
            /\ pendingPuts' = pendingPuts \ {p}
    /\ UNCHANGED <<variant, orphans, lifecycleVars, h, msgIn, posted, pendingMatchAll>>

\* cache.put(req, copy) of the write chain settles
ShellPutSettles(p, ok) ==
    /\ variant = "shell"
    /\ p \in pendingPuts
    /\ p.cache # NoCache
    /\ caches' = IF ok THEN StoragePut(caches, p.cache, p.url, p.resp) ELSE caches
    /\ pendingPuts' = pendingPuts \ {p}
    /\ orphans' = Collect(IF ok THEN OrphansPut(orphans, p.cache, p.url, p.resp) ELSE orphans,
                          h, pendingPuts')
    /\ UNCHANGED <<variant, lifecycleVars, h, msgIn, posted, pendingMatchAll>>

(***************************************************************************)
(* Message handling (security worker)                                      *)
(***************************************************************************)
\* the clients of the registration: two windows (one controlled, one not yet)
\* and a dedicated worker
WindowClients == <<"window-1", "window-2">>
Sources == {"window-1", "window-2", "worker-1", "foreign", "none"}

\* event.source.url, "" when there is no source
SourceUrl(src) ==
    CASE src = "none" -> Url("", "")
      [] src = "foreign" -> Url(OtherOrigin, "/page")
      [] OTHER -> Url(ALLOWED_ORIGIN, "/")

MessageData ==
    { [primitive |-> "null"], [primitive |-> "ping"],
      [type |-> "CONFIRM_DELETE", projectId |-> "p1"],
      [type |-> "CONFIRM_DELETE", projectId |-> "p2"],
      [type |-> "CONFIRM_DELETE"],
      [type |-> "SW_HEALTH_CHECK"],
      [type |-> "NOOP"] }

\* data && typeof data === 'object'
IsObject(data) == "primitive" \notin DOMAIN data

Undefined == "undefined"
Field(data, f) == IF f \in DOMAIN data THEN data[f] ELSE Undefined

Post(to, m) == [to |-> to, msg |-> m]

\* a clients.matchAll({includeUncontrolled: true, type: 'window'}) call of
\* the listener, with the data.projectId its callback closes over
MatchAll(projectId) == [projectId |-> projectId]

\* what the listener has done when it returns: the messages it posted, in
\* order, and the matchAll calls it started
Listened(posts, calls) == [posts |-> posts, calls |-> calls]

\* MessageListener that answers a health check to every window
MessageListenerBroadcastsHealth(src, data) ==
    IF src = "none" \/ SourceUrl(src).origin = "" THEN Listened(<<>>, <<>>)
    ELSE IF SourceUrl(src).origin # ALLOWED_ORIGIN THEN Listened(<<>>, <<>>)
    ELSE IF ~IsObject(data) THEN Listened(<<>>, <<>>)
    ELSE Listened(IF Field(data, "type") = "SW_HEALTH_CHECK"
                  THEN [i \in 1..Len(WindowClients) |->
                            Post(WindowClients[i],
                                 [type |-> "SW_HEALTH_OK", version |-> CACHE_NAME])]
                  ELSE <<>>,
                  IF Field(data, "type") = "CONFIRM_DELETE"
                  THEN <<MatchAll(Field(data, "projectId"))>>
                  ELSE <<>>)

\* the message listener, up to its return
MessageListener(src, data) ==
    IF src = "none" \/ SourceUrl(src).origin = "" THEN Listened(<<>>, <<>>)
    ELSE IF SourceUrl(src).origin # ALLOWED_ORIGIN THEN Listened(<<>>, <<>>)
    ELSE IF ~IsObject(data) THEN Listened(<<>>, <<>>)
    ELSE Listened(IF Field(data, "type") = "SW_HEALTH_CHECK"
                  THEN <<Post(src, [type |-> "SW_HEALTH_OK", version |-> CACHE_NAME])>>
                  ELSE <<>>,
                  IF Field(data, "type") = "CONFIRM_DELETE"
                  THEN <<MatchAll(Field(data, "projectId"))>>
                  ELSE <<>>)

\* the callback of matchAll: clients.forEach(client => client.postMessage(...))
Broadcast(call) ==
    [i \in 1..Len(WindowClients) |->
        Post(WindowClients[i],
             [type |-> "CONFIRM_DELETE", payload |-> [projectId |-> call.projectId]])]

\* a message event is dispatched, at any moment of the worker's life, also
\* while a fetch handler or earlier clients.matchAll calls are pending, and
\* the listener runs to its return
SecMessage(src, data) ==
    /\ variant = "security"
    /\ swState \notin {"parsed", "redundant"}
    /\ Len(pendingMatchAll) + Len(MessageListener(src, data).calls) <= MaxPendingMatchAll
    /\ msgIn' = [source |-> src, data |-> data]
    /\ posted' = MessageListener(src, data).posts
    /\ pendingMatchAll' = pendingMatchAll \o MessageListener(src, data).calls
    /\ UNCHANGED <<variant, caches, orphans, lifecycleVars, h, pendingPuts>>

\* the i-th pending clients.matchAll settles, in any order with the other
\* pending calls: its callback posts to every window client; a rejection has
\* no handler and nothing is posted
MatchAllSettles(i, ok) ==
    /\ variant = "security"
    /\ i \in 1..Len(pendingMatchAll)
    /\ posted' = IF ok THEN Broadcast(pendingMatchAll[i]) ELSE <<>>
    /\ pendingMatchAll' = [j \in 1..(Len(pendingMatchAll) - 1) |->
                                IF j < i THEN pendingMatchAll[j] ELSE pendingMatchAll[j + 1]]
    /\ UNCHANGED <<variant, caches, orphans, lifecycleVars, h, pendingPuts, msgIn>>

\* The messages dispatched while the worker installs, activates and serves
\* every kind of request: a health check and a deletion request of a window.
LifecycleSources == {"window-1"}
LifecycleMessageData ==
    { [type |-> "SW_HEALTH_CHECK"],
      [type |-> "CONFIRM_DELETE", projectId |-> "p1"] }

(***************************************************************************)
(* The host                                                                *)
(***************************************************************************)
\* The origin's cache storage is cleared (by the user, the browser or a page)
\* while the worker stays active.  The model lets this happen only between
\* requests, when no handler holds a Cache object and no put is in flight.
StorageCleared ==
    /\ swState = "activated"
    /\ h.pc \in {"idle", "done"}
    /\ pendingPuts = {}
    /\ caches # <<>>
    /\ caches' = <<>>
    /\ UNCHANGED <<variant, orphans, lifecycleVars, h, pendingPuts, msgIn, posted, pendingMatchAll>>

(***************************************************************************)
(* Specification                                                           *)
(***************************************************************************)
Next ==
    \/ SecInstall
    \/ \E ok \in BOOLEAN : SecInstallOpened(ok)
    \/ SecActivate
    \/ SecClaim
    \/ SecKeys
    \/ \E k \in StaleNames : SecDelete(k)
    \/ SecActivated
    \/ ShellInstall
    \/ \E ok \in BOOLEAN : ShellInstallOpened(ok)
    \/ \E bad \in SUBSET AssetSet : ShellAddAll(bad)
    \/ ShellSkipWaitingResolved
    \/ ShellActivate
    \/ ShellKeys
    \/ \E k \in StaleNames : ShellDelete(k)
    \/ ShellDeletesDone
    \/ ShellClaim
    \/ \E req \in Requests : SecFetchEvent(req)
    \/ \E n \in Served(h.req.url) : BrowserFetch(n)
    \/ \E n \in Served(h.req.url) : NavNetwork(n)
    \/ NavHardened
    \/ \E ok \in BOOLEAN : NavOpen(ok)
    \/ NavFallback
    \/ NavCachedHardened
    \/ \E n \in Served(h.req.url) : ApiCalendar(n)
    \/ ApiBodyRead
    \/ \E ok \in BOOLEAN : DefaultOpen(ok)
    \/ \E n \in Served(h.req.url) : DefaultNetwork(n)
    \/ DefaultHardened
    \/ DefaultMatch
    \/ DefaultCachedHardened
    \/ DefaultCatchMatch
    \/ DefaultCatchHardened
    \/ \E p \in pendingPuts, ok \in BOOLEAN : SecPutSettles(p, ok)
    \/ \E req \in Requests : ShellFetchEvent(req)
    \/ ShellNavMatch
    \/ \E n \in Served(h.req.url) : ShellNavNetwork(n)
    \/ ShellOtherMatch
    \/ \E n \in Served(h.req.url) : ShellOtherNetwork(n)
    \/ \E p \in pendingPuts, ok \in BOOLEAN : ShellPutOpened(p, ok)
    \/ \E p \in pendingPuts, ok \in BOOLEAN : ShellPutSettles(p, ok)
    \/ \E src \in LifecycleSources, data \in LifecycleMessageData : SecMessage(src, data)
    \/ \E i \in 1..MaxPendingMatchAll, ok \in BOOLEAN : MatchAllSettles(i, ok)
    \/ StorageCleared

Spec == Init /\ [][Next]_vars

(***************************************************************************)
(* A new generation installs and activates while a fetch handler of the    *)
(* previous generation is still in flight.  The previous generation ran    *)
(* the same script under the cache name "app-v0"; its bucket exists, and   *)
(* its worker is the active one.                                           *)
(***************************************************************************)
PreviousGeneration == "app-v0"

\* the storage the previous generation leaves: its own bucket, empty or filled
RaceCaches ==
    {<<[name |-> PreviousGeneration, entries |-> e]>> : e \in {NoEntries, OldEntries}}

\* a handler of the previous generation that waits for its first promise:
\* caches.open or fetch(request) in the security worker, caches.match in the
\* static shell
InFlightPrevious ==
    IF variant = "security"
    THEN {[Idle EXCEPT !.pc = IF FetchListener(req) = <<"default">> THEN "open" ELSE "fetch",
                       !.calls = FetchListener(req), !.req = req,
                       !.cn = PreviousGeneration] :
            req \in {r \in Requests : FetchListener(r) # <<>>}}
    ELSE {[Idle EXCEPT !.pc = "match", !.calls = ShellFetchListener(req), !.req = req,
                       !.cn = PreviousGeneration] :
            req \in Requests}

InitRace ==
    /\ variant \in Variants
    /\ caches \in RaceCaches
    /\ orphans = <<>>
    /\ swState = "parsed"
    /\ installError = "none"
    /\ skipWaitingCalled = FALSE
    /\ claimed = FALSE
    /\ toDelete = {}
    /\ active = "previous"
    /\ h \in InFlightPrevious
    /\ pendingPuts = {}
    /\ msgIn = NoMessage
    /\ posted = <<>>
    /\ pendingMatchAll = <<>>

SpecRace == InitRace /\ [][Next]_vars

(***************************************************************************)
(* The fetch handling of an activated security worker when the network     *)
(* also answers without a body: 204 No Content, and the filtered response  *)
(* of a redirect that is not followed (type opaqueredirect, status 0), as  *)
(* every redirected navigation gives.                                      *)
(***************************************************************************)
NoContent == Response(204, "No Content", LeakyHeaders, Body(FALSE, Text(<<>>)))
OpaqueRedirect == Response(0, "", NoHeaders, Body(FALSE, Text(<<>>)))

Bodiless == {[failed |-> FALSE, resp |-> r] : r \in {NoContent, OpaqueRedirect}}

ServedBodiless(url) == Served(url) \cup Bodiless

InitBodiless ==
    /\ variant = "security"
    /\ caches = <<[name |-> "arminos-static-v1", entries |-> NoEntries]>>
    /\ orphans = <<>>
    /\ swState = "activated"
    /\ installError = "none"
    /\ skipWaitingCalled = TRUE
    /\ claimed = TRUE
    /\ toDelete = {}
    /\ active = "new"
    /\ h = Idle
    /\ pendingPuts = {}
    /\ msgIn = NoMessage
    /\ posted = <<>>
    /\ pendingMatchAll = <<>>

NextBodiless ==
    \/ \E req \in Requests : SecFetchEvent(req)
    \/ \E n \in ServedBodiless(h.req.url) : BrowserFetch(n)
    \/ \E n \in ServedBodiless(h.req.url) : NavNetwork(n)
    \/ NavHardened
    \/ \E ok \in BOOLEAN : NavOpen(ok)
    \/ NavFallback
    \/ NavCachedHardened
    \/ \E n \in ServedBodiless(h.req.url) : ApiCalendar(n)
    \/ ApiBodyRead
    \/ \E ok \in BOOLEAN : DefaultOpen(ok)
    \/ \E n \in ServedBodiless(h.req.url) : DefaultNetwork(n)
    \/ DefaultHardened
    \/ DefaultMatch
    \/ DefaultCachedHardened
    \/ DefaultCatchMatch
    \/ DefaultCatchHardened
    \/ \E p \in pendingPuts, ok \in BOOLEAN : SecPutSettles(p, ok)

SpecBodiless == InitBodiless /\ [][NextBodiless]_vars

(***************************************************************************)
(* The message listener of an activated security worker: messages of every *)
(* kind from every kind of sender arrive at any moment, also while a fetch *)
(* handler of the default route is in flight, a cache write is pending or  *)
(* earlier clients.matchAll calls have not settled.                        *)
(***************************************************************************)
MessageRequests ==
    {Request("GET", Url(ALLOWED_ORIGIN, "/app.js"), "cors", AnyAccept)}

InitMessage ==
    /\ variant = "security"
    /\ caches = <<[name |-> "arminos-static-v1", entries |-> NoEntries]>>
    /\ orphans = <<>>
    /\ swState = "activated"
    /\ installError = "none"
    /\ skipWaitingCalled = TRUE
    /\ claimed = TRUE
    /\ toDelete = {}
    /\ active = "new"
    /\ h = Idle
    /\ pendingPuts = {}
    /\ msgIn = NoMessage
    /\ posted = <<>>
    /\ pendingMatchAll = <<>>

NextMessage ==
    \/ \E req \in MessageRequests : SecFetchEvent(req)
    \/ \E ok \in BOOLEAN : DefaultOpen(ok)
    \/ \E n \in Served(h.req.url) : DefaultNetwork(n)
    \/ DefaultHardened
    \/ DefaultMatch
    \/ DefaultCachedHardened
    \/ DefaultCatchMatch
    \/ DefaultCatchHardened
    \/ \E p \in pendingPuts, ok \in BOOLEAN : SecPutSettles(p, ok)
    \/ \E src \in Sources, data \in MessageData : SecMessage(src, data)
    \/ \E i \in 1..MaxPendingMatchAll, ok \in BOOLEAN : MatchAllSettles(i, ok)

SpecMessage == InitMessage /\ [][NextMessage]_vars

(***************************************************************************)
(* The sanitiser on its own: an activated security worker that answers     *)
(* sensitive-API requests whose JSON documents are drawn from a bounded    *)
(* set of values.                                                          *)
(***************************************************************************)
Example1 == DirtyLeaf
\* "onclick=\"bad()\"x"
Example2 == <<"o", "n", "c", "l", "i", "c", "k", "=", "\"", "b", "a", "d", "(", ")", "\"", "x">>
\* "javascript:evil()"
Example3 == <<"j", "a", "v", "a", "s", "c", "r", "i", "p", "t", ":", "e", "v", "i", "l", "(", ")">>

Fragments ==
    { <<"<", "s", "c", "r", "i", "p", "t", ">">>,
      <<"a", "l", "e", "r", "t", "(", "1", ")">>,
      <<"<", "/", "s", "c", "r", "i", "p", "t", ">">>,
      <<"h", "e", "l", "l", "o">>,
      <<"o", "n", "c", "l", "i", "c", "k", "=">>,
      <<"\"", "b", "a", "d", "(", ")", "\"">>,
      <<"x">>,
      <<"j", "a", "v", "a", "s", "c", "r", "i", "p", "t", ":">>,
      <<" ">>,
      <<">">>,
      <<"<", "S", "C", "R", "I", "P", "T", " ", "d", "e", "f", "e", "r">>,
      <<"O", "n", "L", "o", "a", "d", " ", "=", " ", "'", "y", " ", "z", "'">>,
      <<"J", "a", "v", "a", "S", "c", "r", "i", "p", "t", ":">>,
      <<"">>,
      <<"U+2028">> }

\* the strings made of at most n fragments
RECURSIVE Concats(_)
Concats(n) ==
    IF n = 0 THEN {<<>>}
    ELSE LET shorter == Concats(n - 1)
         IN shorter \cup {p \o f : p \in shorter, f \in Fragments}

SanitizeStrings == Concats(MaxPieces) \cup {Example1, Example2, Example3}

LeafDocument(s) == JString(s)
ArrayDocument(s) ==
    JArray(<< JNumber(1), JString(s), JBool(FALSE), JNull, JArray(<<>>) >>)
ObjectDocument(s) ==
    JObject(("title" :> JString(s)) @@ ("count" :> JNumber(3))
            @@ ("meta" :> JObject(("note" :> JString(s)) @@ ("done" :> JBool(TRUE))
                                  @@ ("tags" :> JArray(<< JString(Example3), JNull >>)))))

\* {"__proto__": {"title": s}, "n": 1}
ProtoDocument(s) ==
    JObject(("__proto__" :> JObject(("title" :> JString(s)))) @@ ("n" :> JNumber(1)))
\* {"a": {"__proto__": s}}
NestedProtoDocument(s) ==
    JObject(("a" :> JObject(("__proto__" :> JString(s)))))

SanitizeDocuments ==
    {JNumber(0), JBool(TRUE), JNull}
    \cup {ProtoDocument(s) : s \in {Example1, Example2, Example3}}
    \cup {NestedProtoDocument(s) : s \in {Example1, Example2, Example3}}
    \cup {LeafDocument(s) : s \in SanitizeStrings}
    \cup {ArrayDocument(s) : s \in SanitizeStrings}
    \cup {ObjectDocument(s) : s \in SanitizeStrings}

SanitizeOutcomes ==
    {[failed |-> FALSE, resp |-> Response(200, "OK", JsonHeaders, Body(TRUE, d))] :
        d \in SanitizeDocuments}

SanitizeRequests ==
    {Request("GET", Url(ALLOWED_ORIGIN, "/api/calendar/events"), "cors", AnyAccept)}

\* the worker is installed and activated on a storage without stale generations
InitSanitize ==
    /\ variant = "security"
    /\ caches = <<[name |-> "arminos-static-v1", entries |-> NoEntries]>>
    /\ orphans = <<>>
    /\ swState = "activated"
    /\ installError = "none"
    /\ skipWaitingCalled = TRUE
    /\ claimed = TRUE
    /\ toDelete = {}
    /\ active = "new"
    /\ h = Idle
    /\ pendingPuts = {}
    /\ msgIn = NoMessage
    /\ posted = <<>>
    /\ pendingMatchAll = <<>>

NextSanitize ==
    \/ \E req \in SanitizeRequests : SecFetchEvent(req)
    \/ \E n \in SanitizeOutcomes : ApiCalendar(n)
    \/ ApiBodyRead

SpecSanitize == InitSanitize /\ [][NextSanitize]_vars

(***************************************************************************)
(* Properties                                                              *)
(***************************************************************************)
Security == variant = "security"
Shell == variant = "shell"

\* every Security Header Set entry has its fixed value and there is no Server header
Hardened(r) ==
    /\ \A k \in SecurityHeaderNames : HeadersGet(r.headers, k) = SECURITY_HEADERS[k]
    /\ "Server" \notin DOMAIN r.headers

\* the handler in flight returns in this step
Returns == h.pc # "done" /\ h'.pc = "done"

\* the network answered with a status that is not an error status
NonErrorStatus(n) == ~n.failed /\ n.resp.status >= 200 /\ n.resp.status < 400

\* C1 as stated: when a network-first handler (navigation, sensitive-API or
\* default) has returned after the network answered with a non-error status,
\* the CACHE_NAME cache holds the fresh network response for the request.
C1_CachedOnReturn ==
    (Security /\ h.pc = "done" /\ h.calls # <<>> /\ NonErrorStatus(h.net))
        => /\ CacheHas(caches, CACHE_NAME, "GET", h.req.url)
           /\ CacheMatch(caches, CACHE_NAME, "GET", h.req.url) = h.net.resp

\* C1 amended: when the network answers networkFirstWithSecurity (the
\* default path) with an ok status, a put of the fresh response under the
\* request in the CACHE_NAME cache is started at once, before the handler
\* reads the body and returns, and is not awaited; the handler returns the
\* network's response only after that.  When a started put succeeds, the
\* CACHE_NAME cache holds that response for the request, whatever entry was
\* there before; the navigation and sensitive-API handlers start no put and
\* change no cache.
C1_DefaultPathPutStarted ==
    [][ /\ (Security /\ h.pc = "fetch" /\ h'.pc # "fetch" /\ Route(h') = "default"
                /\ ~h'.net.failed /\ Ok(h'.net.resp))
            => /\ Put(CACHE_NAME, h'.req.url, h'.net.resp, Live(CACHE_NAME)) \in pendingPuts'
               /\ h'.pc = "body"
        /\ (Security /\ Returns /\ Route(h') = "default" /\ h'.outcome = "response"
                /\ ~h'.net.failed /\ Ok(h'.net.resp))
            => h.pc = "body"
        /\ \A p \in pendingPuts \ pendingPuts' :
            (Security /\ caches' # caches)
                => CacheMatch(caches', CACHE_NAME, "GET", p.url) = p.resp
        /\ (Security /\ h' # h /\ Route(h') \in {"navigation", "api"})
            => /\ pendingPuts' = pendingPuts
               /\ EntriesOf(caches', CACHE_NAME) = EntriesOf(caches, CACHE_NAME) ]_vars

\* C1 witness: the default path returned a fresh ok response, its put has
\* settled and the cache entry of the request, which held an older response
\* when the worker was installed, now holds the fresh one.
C1_Witness ==
    /\ Security /\ h.pc = "done" /\ Route(h) = "default"
    /\ ~h.net.failed /\ Ok(h.net.resp)
    /\ h.req.url = Url(ALLOWED_ORIGIN, "/app.js")
    /\ pendingPuts = {}
    /\ CacheMatch(caches, CACHE_NAME, "GET", h.req.url) = h.net.resp
    /\ h.net.resp # OldResponse

\* C2 as stated: every response a handler of the security worker returns for
\* an intercepted request has the five security headers at their fixed values
\* and no Server header.
C2_EveryResponseHardened ==
    (Security /\ h.pc = "done" /\ h.calls # <<>> /\ h.outcome = "response")
        => Hardened(h.out)

\* C3 as stated: when the network fetch of an intercepted request fails while
\* the cache holds an entry for that request, the handler (navigation,
\* sensitive-API or default) returns the cached body, hardened.
C3_CachedBodyOnFailure ==
    [][ (Security /\ Returns /\ h'.calls # <<>> /\ h'.net.failed
            /\ CacheHas(caches, CACHE_NAME, "GET", h'.req.url))
        => /\ h'.outcome = "response"
           /\ h'.out.body = CacheMatch(caches, CACHE_NAME, "GET", h'.req.url).body
           /\ Hardened(h'.out) ]_vars

\* the request a handler looks up in the cache
LookupUrl(hh) ==
    CASE Route(hh) = "navigation" -> Resolve("/offline.html")
      [] Route(hh) = "shell_nav" -> Resolve("./index.html")
      [] OTHER -> hh.req.url

\* C3 amended: when the network fetch fails, the default path looks its
\* request up in the cache and returns the body of the entry it finds,
\* hardened, and rejects when it finds none; the navigation handler looks up
\* /offline.html and returns the body of that entry, hardened, or the
\* synthesized 503 page when there is none; the sensitive-API handler returns
\* the synthesized 502 response.  The lookup finds what the cache holds when
\* it resolves.  A cached entry whose status does not allow a body cannot be
\* hardened: the handler that would return it rejects; so does the
\* navigation handler when the caches.open of its fallback rejects.
C3_FallbackPerHandler ==
    /\ [][ (Security /\ h.pc \in {"catch_match", "nav_match"} /\ h'.pc # h.pc)
            => /\ h'.hit = CacheHas(caches, CACHE_NAME, "GET", LookupUrl(h))
               /\ h'.hit => h'.cached = CacheMatch(caches, CACHE_NAME, "GET", LookupUrl(h)) ]_vars
    /\ [][ (Security /\ Returns /\ h'.calls # <<>> /\ h'.net.failed)
            => /\ (Route(h') = "default")
                    => IF ~h'.hit \/ Throws(h'.cached)
                       THEN h'.outcome = "rejected"
                       ELSE /\ h'.outcome = "response"
                            /\ h'.out.body = h'.cached.body
                            /\ h'.out.status = h'.cached.status
                            /\ Hardened(h'.out)
               /\ (Route(h') = "navigation" /\ h.pc = "nav_fallback")
                    => h'.outcome = "rejected"
               /\ (Route(h') = "navigation" /\ h.pc # "nav_fallback")
                    => IF h'.hit
                       THEN IF Throws(h'.cached)
                            THEN h'.outcome = "rejected"
                            ELSE /\ h'.outcome = "response"
                                 /\ Hardened(h'.out)
                                 /\ h'.out.body = h'.cached.body
                       ELSE /\ h'.outcome = "response"
                            /\ Hardened(h'.out)
                            /\ h'.out.status = 503
                            /\ h'.out.body = Body(FALSE, Text(<<"<h1>Offline</h1>">>))
               /\ (Route(h') = "api")
                    => /\ h'.outcome = "response"
                       /\ h'.out.status = 502
                       /\ Hardened(h'.out) ]_vars

\* C3 witness: the default path returned, after a network failure, the body
\* of the entry cached for its request, hardened.
C3_Witness ==
    /\ Security /\ h.pc = "done" /\ Route(h) = "default"
    /\ h.net.failed /\ h.hit
    /\ h.outcome = "response"
    /\ h.out.body = h.cached.body
    /\ Hardened(h.out)

CrossOriginOrNonGet(req) == req.method # "GET" \/ req.url.origin # ALLOWED_ORIGIN

\* C4 as stated: in both workers, handling a cross-origin or non-GET request
\* neither changes a cache nor starts a cache write, and the caller receives
\* exactly what the network answered, never a cached response.
C4_PassThroughBothVariants ==
    [][ (h' # h /\ h'.pc # "idle" /\ CrossOriginOrNonGet(h'.req))
        => /\ caches' = caches
           /\ pendingPuts' = pendingPuts
           /\ h'.pc = "done" => (h'.net # NoNet /\ ~h'.hit /\ h'.out = h'.net.resp) ]_vars

\* C4 amended: handling a cross-origin or non-GET request changes no cache and
\* starts no cache write in either worker.  The security worker does not
\* call respondWith for it and the caller receives exactly what the network
\* answered.  The static-shell worker looks the request up in the caches: the
\* caller receives what the network answered when the lookup misses, which
\* is always so for a non-GET request that is not a navigation, and a
\* navigation (also a non-GET one) is answered with the cached ./index.html
\* when a cache holds it.
C4_PassThroughPerVariant ==
    [][ (h' # h /\ h'.pc # "idle" /\ CrossOriginOrNonGet(h'.req))
        => /\ caches' = caches
           /\ pendingPuts' = pendingPuts
           /\ Security =>
                /\ h'.calls = <<>>
                /\ h'.pc = "done" =>
                    /\ h'.net # NoNet /\ ~h'.hit /\ h'.out = h'.net.resp
                    /\ h'.outcome = IF h'.net.failed THEN "network_error" ELSE "passthrough"
           /\ (Shell /\ h'.pc = "done") =>
                /\ ~h'.hit => (h'.net # NoNet /\ h'.out = h'.net.resp)
                /\ (h'.req.mode # "navigate" /\ h'.req.method # "GET") => ~h'.hit
           /\ (Shell /\ h.pc = "match" /\ h'.req.mode = "navigate"
                    /\ CachesHas(caches, "GET", Url(ALLOWED_ORIGIN, "/index.html")))
                => /\ h'.pc = "done" /\ h'.hit /\ h'.net = NoNet
                   /\ h'.out = CachesMatch(caches, "GET", Url(ALLOWED_ORIGIN, "/index.html")) ]_vars

\* C4 witness: the security worker has let a cross-origin GET through and the
\* caller got the network's response, headers untouched.
C4_Witness ==
    /\ Security /\ h.pc = "done"
    /\ h.req.method = "GET" /\ h.req.url.origin = OtherOrigin
    /\ h.calls = <<>>
    /\ ~h.net.failed
    /\ "Server" \in DOMAIN h.net.resp.headers
    /\ h.out = h.net.resp

\* C5: at the step in which the activate event's promise resolves, the cache
\* storage holds exactly one generation, the one called CACHE_NAME, whatever
\* generations existed before; in both workers.
C5_ActivationLeavesCurrentOnly ==
    [][ (swState # "activated" /\ swState' = "activated")
        => CacheNames(caches') = {CACHE_NAME} ]_vars

\* C5 witness: activation has completed and only the current generation exists
C5_Witness ==
    /\ swState = "activated" /\ claimed /\ active = "new"
    /\ h.pc = "idle"
    /\ CacheNames(caches) = {CACHE_NAME}

Malformed(data) ==
    \/ ~IsObject(data)
    \/ (Field(data, "type") = "CONFIRM_DELETE" /\ "projectId" \notin DOMAIN data)

\* a step in which a clients.matchAll call of the listener settles
MatchAllStep == Len(pendingMatchAll') < Len(pendingMatchAll)

\* a step in which a message event is dispatched and the listener runs;
\* msgIn' is the event
MessageStep ==
    /\ ~MatchAllStep
    /\ <<msgIn', posted', pendingMatchAll'>> # <<msgIn, posted, pendingMatchAll>>

\* C6 as stated: a message whose sender is not of the worker's origin, or
\* whose data is not an object or lacks a required field (projectId of
\* CONFIRM_DELETE), makes the listener post nothing and start no broadcast.
C6_DroppedMessagesPostNothing ==
    [][(MessageStep /\ (SourceUrl(msgIn'.source).origin # ALLOWED_ORIGIN
                            \/ Malformed(msgIn'.data)))
        => /\ posted' = <<>>
           /\ pendingMatchAll' = pendingMatchAll]_vars

\* C7: a SW_HEALTH_CHECK from a same-origin sender makes the listener post
\* exactly one message: {type: SW_HEALTH_OK, version: CACHE_NAME}, to the
\* sender, and start no broadcast.
C7_HealthCheckOneReply ==
    [][(MessageStep /\ SourceUrl(msgIn'.source).origin = ALLOWED_ORIGIN
            /\ IsObject(msgIn'.data) /\ Field(msgIn'.data, "type") = "SW_HEALTH_CHECK")
        => /\ posted' = <<Post(msgIn'.source,
                               [type |-> "SW_HEALTH_OK", version |-> "arminos-static-v1"])>>
           /\ pendingMatchAll' = pendingMatchAll]_vars

\* C7 witness: the dedicated worker's health check has been answered
C7_Witness ==
    /\ Security /\ msgIn.source = "worker-1"
    /\ Field(msgIn.data, "type") = "SW_HEALTH_CHECK"
    /\ posted = <<Post("worker-1", [type |-> "SW_HEALTH_OK", version |-> "arminos-static-v1"])>>

\* C8 as stated: after an install that failed because an asset could not be
\* fetched, skipWaiting has not been called, no bucket has the new generation's
\* name, and the previously active worker is still the active one.
C8_FailedInstallLeavesNoBucket ==
    (Shell /\ installError = "AssetFetchError")
        => /\ swState = "redundant"
           /\ ~skipWaitingCalled
           /\ CACHE_NAME \notin CacheNames(caches)
           /\ active # "new"

\* C8 amended: when an asset cannot be fetched the install promise rejects,
\* skipWaiting is never called, addAll stores none of the assets and the
\* caches are as they were, the previously active worker stays the active one;
\* but the bucket that caches.open created under the new generation's name
\* remains, holding what it held before the install (nothing if it was new).
C8_FailedInstallKeepsEmptyBucket ==
    /\ [][ (Shell /\ swState = "install_addAll" /\ swState' = "redundant")
            => /\ installError' = "AssetFetchError"
               /\ caches' = caches
               /\ active' = active ]_vars
    /\ [](installError = "AssetFetchError"
            => /\ swState = "redundant"
               /\ ~skipWaitingCalled
               /\ active # "new"
               /\ CACHE_NAME \in CacheNames(caches)
               /\ EntriesOf(caches, CACHE_NAME) \in {NoEntries, OldEntries})

\* C8 witness: an install failed on an asset while an earlier worker was
\* active; the new generation's bucket exists and is empty.
C8_Witness ==
    /\ Shell /\ installError = "AssetFetchError" /\ swState = "redundant"
    /\ active = "previous"
    /\ ~skipWaitingCalled
    /\ CACHE_NAME \in CacheNames(caches)
    /\ EntriesOf(caches, CACHE_NAME) = NoEntries

\* C9: the security worker's fetch listener calls respondWith at most once,
\* with the handler of the first rule that matches: none for a non-GET or
\* cross-origin request, else navigation handling for a navigation or an
\* HTML-accepting request, else sensitive-API handling for a path under
\* /api/calendar, else the default network-first handling.
C9_RoutingPrecedence ==
    (Security /\ h.pc # "idle")
        => /\ Len(h.calls) <= 1
           /\ h.calls =
                IF h.req.method # "GET" \/ h.req.url.origin # ALLOWED_ORIGIN THEN <<>>
                ELSE IF h.req.mode = "navigate" \/ h.req.accept = HtmlAccept
                     THEN <<"navigation">>
                ELSE IF h.req.url.pathname = "/api/calendar/events" THEN <<"api">>
                ELSE <<"default">>
           /\ (h.pc = "done" /\ h.calls = <<"navigation">> /\ h.net.failed /\ ~h.hit
                    /\ h.outcome = "response")
                => h.out = OfflinePage
           /\ (h.pc = "done" /\ h.calls = <<"api">> /\ h.net.failed)
                => h.out = NetworkErrorResponse

\* C9 witness: an HTML-accepting GET for a path under /api/calendar has been
\* given navigation handling
C9_Witness ==
    /\ Security /\ h.pc = "done"
    /\ h.req.method = "GET" /\ h.req.url = Url(ALLOWED_ORIGIN, "/api/calendar/events")
    /\ h.req.accept = HtmlAccept
    /\ h.calls = <<"navigation">>
    /\ h.net.failed /\ h.out = OfflinePage

\* C10 as stated: when the network's response to a sensitive-API request says
\* it is JSON and its body does not parse, the handler returns that response:
\* its status, its body untouched, the headers hardened.
C10_UnparsableJsonPassesThrough ==
    (Security /\ h.pc = "done" /\ h.calls = <<"api">> /\ ~h.net.failed
        /\ IncludesJson(HeadersGet(h.net.resp.headers, "Content-Type"))
        /\ ~h.net.resp.body.json)
        => /\ h.outcome = "response"
           /\ h.out.status = h.net.resp.status
           /\ h.out.body = h.net.resp.body
           /\ Hardened(h.out)
(***************************************************************************)
(* C11: sanitizeJsonStrings keeps the shape of a JSON value, replaces every *)
(* string leaf s by sanitizeString(s) and leaves numbers, booleans and null *)
(* unchanged; sanitizeString turns "<script>alert(1)</script>hello" into    *)
(* "hello", "onclick=\"bad()\"x" into "x" and "javascript:evil()" into      *)
(* "evil()".  Checked on the documents the sensitive-API handler answers    *)
(* with, under SpecSanitize.                                                *)
(***************************************************************************)
Hello == <<"h", "e", "l", "l", "o">>
Evil == <<"e", "v", "i", "l", "(", ")">>

ExamplesHold(in, out) ==
    /\ in = Example1 => out = Hello
    /\ in = Example2 => out = <<"x">>
    /\ in = Example3 => out = Evil

RECURSIVE LeavesSanitized(_, _)
LeavesSanitized(a, b) ==
    IF "str" \in DOMAIN a
    THEN /\ DOMAIN b = {"str"}
         /\ b.str = sanitizeString(a.str)
         /\ ExamplesHold(a.str, b.str)
    ELSE IF "arr" \in DOMAIN a
    THEN /\ DOMAIN b = {"arr"}
         /\ Len(b.arr) = Len(a.arr)
         /\ \A i \in 1..Len(a.arr) : LeavesSanitized(a.arr[i], b.arr[i])
    ELSE IF "obj" \in DOMAIN a
    THEN /\ DOMAIN b = {"obj"}
         /\ DOMAIN b.obj = DOMAIN a.obj
         /\ \A k \in DOMAIN a.obj : LeavesSanitized(a.obj[k], b.obj[k])
    ELSE b = a

\* C11 as stated: the document the sensitive-API handler returns has the
\* shape of the document the network sent (the same keys in every object, the
\* same length of every array), every string leaf sanitized (the three
\* examples becoming "hello", "x" and "evil()"), every other leaf unchanged
C11_SameShapeLeavesSanitized ==
    (h.pc = "done" /\ Route(h) = "api" /\ ~h.net.failed /\ h.net.resp.body.json)
        => /\ h.out.body.json
           /\ LeavesSanitized(h.net.resp.body.text, h.out.body.text)

\* a CONFIRM_DELETE message with a project id from a sender of the worker's origin
ConfirmDelete(m) ==
    /\ SourceUrl(m.source).origin = ALLOWED_ORIGIN
    /\ IsObject(m.data)
    /\ Field(m.data, "type") = "CONFIRM_DELETE"
    /\ "projectId" \in DOMAIN m.data

MessageLeavesCaches ==
    (MessageStep \/ MatchAllStep) => (caches' = caches /\ pendingPuts' = pendingPuts)

\* the broadcast of a project id, with the message that each window gets
BroadcastOf(message) ==
    [i \in 1..Len(WindowClients) |-> Post(WindowClients[i], message)]

\* the pending calls without the i-th
WithoutCall(i) ==
    [j \in 1..(Len(pendingMatchAll) - 1) |->
        IF j < i THEN pendingMatchAll[j] ELSE pendingMatchAll[j + 1]]

\* C12 as stated: a CONFIRM_DELETE with project id p from a same-origin
\* sender starts one broadcast; when its clients.matchAll resolves every
\* window client is posted exactly one message, the input's payload
\* {type: CONFIRM_DELETE, projectId: p}, also when broadcasts of several
\* messages are pending and settle in another order; message handling
\* changes no cache.
C12_BroadcastEchoesInput ==
    /\ [][(MessageStep /\ ConfirmDelete(msgIn')) =>
            pendingMatchAll' = pendingMatchAll \o <<MatchAll(msgIn'.data.projectId)>>]_vars
    /\ [][(MatchAllStep /\ posted' # <<>>) =>
            \E i \in 1..Len(pendingMatchAll) :
                /\ pendingMatchAll' = WithoutCall(i)
                /\ posted' = BroadcastOf([type |-> "CONFIRM_DELETE",
                                          projectId |-> pendingMatchAll[i].projectId])]_vars
    /\ [][MessageLeavesCaches]_vars

\* no handler is in flight and no cache write is pending
Quiescent == h.pc \in {"idle", "done"} /\ pendingPuts = {}

\* C13 as stated: once activation has completed and every handler in flight,
\* those of the previous generation included, has run to completion, the
\* storage holds no generation but the current one: no handler's cache open
\* or cache write re-creates a stale generation that activation deleted.
C13_StaleGenerationsStayDeleted ==
    (swState = "activated" /\ Quiescent) => CacheNames(caches) \subseteq {CACHE_NAME}

\* what the generation of a handler has cached: the entries of the Cache
\* object it holds, or of the bucket called by its CACHE_NAME
GenerationEntries(hh) ==
    IF hh.cache # NoCache THEN HandleEntries(caches, orphans, hh.cache)
    ELSE EntriesOf(caches, hh.cn)

\* C14 as stated: whenever a handler's cache lookup finds a response, that
\* response is the entry of the bucket named by the handler's own CACHE_NAME;
\* an entry held only by the bucket of another generation is never returned,
\* in either variant.
C14_LookupsScopedToGeneration ==
    [][(h.pc \in {"match", "catch_match", "nav_match"} /\ h'.pc # h.pc /\ h'.hit)
        => /\ LookupUrl(h) \in DOMAIN GenerationEntries(h)
           /\ h'.cached = GenerationEntries(h)[LookupUrl(h)]]_vars

\* a step in which self.skipWaiting() is called
SkipWaitingStep == ~skipWaitingCalled /\ skipWaitingCalled'

\* C15 as stated: in both variants skipWaiting is called only when opening
\* (and, with an asset list, populating) the current generation has succeeded,
\* and never in an execution where open or addAll fails.
C15_SkipWaitingAfterPopulate ==
    /\ [][SkipWaitingStep => swState' \in {"install_skipWaiting", "installed"}]_vars
    /\ [](installError # "none" => ~skipWaitingCalled)

\* C15 amended: the static shell calls skipWaiting in the step in which
\* addAll succeeds, after caches.open succeeded, with every asset stored, and
\* never when open or addAll fails; its install completes when the promise of
\* skipWaiting has resolved.  The security worker calls it first, when the
\* install handler starts and before caches.open settles, also in executions
\* where the open then fails.  In both variants only a worker whose install
\* succeeded becomes the active one.
C15_SkipWaitingPerVariant ==
    /\ [][SkipWaitingStep =>
            IF variant = "shell"
            THEN /\ swState = "install_addAll" /\ swState' = "install_skipWaiting"
                 /\ AssetUrls \subseteq DOMAIN EntriesOf(caches', CACHE_NAME)
            ELSE swState = "parsed" /\ swState' = "install_open"]_vars
    /\ [][(variant = "shell" /\ swState # "installed" /\ swState' = "installed")
            => (swState = "install_skipWaiting" /\ skipWaitingCalled)]_vars
    /\ []((variant = "shell" /\ installError # "none") => ~skipWaitingCalled)
    /\ []((variant = "security" /\ swState # "parsed") => skipWaitingCalled)
    /\ [](active = "new" => (installError = "none" /\ skipWaitingCalled))

\* C15 witness: the security worker's caches.open failed after skipWaiting
\* had been called
C15_Witness ==
    /\ variant = "security"
    /\ swState = "redundant"
    /\ installError = "OpenError"
    /\ skipWaitingCalled

\* a step in which one caches.delete of the activate handler resolves
DeleteStep == swState = "act_delete" /\ toDelete' # toDelete

\* the step in which the activate event's promise resolves
ActivationCompletes == swState # "activated" /\ swState' = "activated"

\* C16 as stated: in both variants clients.claim has resolved before the
\* first caches.delete, and the activate promise resolves only when every
\* deletion has finished.
C16_ClaimBeforeDelete ==
    /\ [][DeleteStep => claimed]_vars
    /\ [][ActivationCompletes => toDelete = {}]_vars

\* C16 amended: the security worker claims the clients first and deletes the
\* stale generations afterwards; the static shell deletes the stale
\* generations first and claims the clients only when every deletion has
\* finished.  In both variants the activate promise resolves only after the
\* claim and after the last deletion.
C16_ActivationOrderPerVariant ==
    /\ [][DeleteStep => (claimed <=> variant = "security")]_vars
    /\ [][(~claimed /\ claimed') =>
            IF variant = "shell"
            THEN swState = "act_claim" /\ toDelete = {} /\ swState' = "activated"
            ELSE swState = "act_claim" /\ swState' = "act_keys"]_vars
    /\ [][ActivationCompletes => (toDelete = {} /\ claimed')]_vars

\* C16 witness: the static shell has finished its deletions and has not yet
\* claimed the clients
C16_Witness ==
    /\ variant = "shell"
    /\ swState = "act_claim"
    /\ ~claimed
    /\ toDelete = {}
    /\ CacheNames(caches) = {CACHE_NAME}

\* the network did not answer, or answered with a server error
NetworkFailed(n) == n.failed \/ n.resp.status >= 500

\* C17: a navigation handled by the security worker always ends with a
\* response, never with a rejection: the hardened network response when the
\* network answers with a status below 500; otherwise the hardened cached
\* /offline.html when the cache of the handler's generation has it, and
\* otherwise a synthesized page with status 503, Content-Type text/html and
\* every security header.  A 503 is returned only when the network failed and
\* the cache had no fallback.
C17_NavigationAlwaysAnswers ==
    /\ []((variant = "security" /\ h.pc = "done" /\ Route(h) = "navigation") =>
            /\ h.outcome = "response"
            /\ IF ~NetworkFailed(h.net)
               THEN /\ h.out.status = h.net.resp.status
                    /\ h.out.body = h.net.resp.body
                    /\ Hardened(h.out)
               ELSE IF h.hit
               THEN /\ h.out.status = h.cached.status
                    /\ h.out.body = h.cached.body
                    /\ Hardened(h.out)
               ELSE /\ h.out.status = 503
                    /\ h.out.body = Body(FALSE, Text(<<"<h1>Offline</h1>">>))
                    /\ HeadersGet(h.out.headers, "Content-Type") = "text/html"
                    /\ \A k \in DOMAIN SECURITY_HEADERS :
                            HeadersGet(h.out.headers, k) = SECURITY_HEADERS[k]
            /\ h.out.status = 503 => (NetworkFailed(h.net) /\ ~h.hit))
    /\ [][(h.pc = "nav_match" /\ h'.pc # "nav_match") =>
            /\ h'.hit = (Resolve("/offline.html") \in DOMAIN GenerationEntries(h))
            /\ h'.hit => h'.cached = GenerationEntries(h)[Resolve("/offline.html")]]_vars

\* C18 as stated: in the static shell every cache write the fetch handler
\* starts, and so every entry of the current generation, is a successful
\* response to a same-origin GET request; an error response (4xx/5xx) is
\* never stored and never served from the cache.
C18_OnlySuccessfulResponsesStored ==
    variant = "shell" =>
        /\ \A p \in pendingPuts : Ok(p.resp) /\ p.url.origin = ALLOWED_ORIGIN
        /\ \A u \in DOMAIN EntriesOf(caches, CACHE_NAME) : Ok(EntriesOf(caches, CACHE_NAME)[u])
        /\ (h.pc = "done" /\ h.hit) => Ok(h.out)

\* C19 as stated: in the static shell, when the lookup found nothing and the
\* network fetch failed, the handler's promise rejects with the network
\* error, for navigations and for other requests alike; it never resolves
\* with undefined or with a synthesized response.
C19_NetworkErrorPropagates ==
    (variant = "shell" /\ h.pc = "done" /\ ~h.hit /\ h.net.failed)
        => h.outcome = "rejected"

\* the entries of the current generation that a step writes or overwrites
Written ==
    {u \in DOMAIN EntriesOf(caches', CACHE_NAME) :
        \/ u \notin DOMAIN EntriesOf(caches, CACHE_NAME)
        \/ EntriesOf(caches', CACHE_NAME)[u] # EntriesOf(caches, CACHE_NAME)[u]}

\* C20: in the security worker a cache write is started only by
\* networkFirstWithSecurity, for a same-origin GET request that is neither a
\* navigation nor an HTML request nor under /api/calendar, with the network's
\* own response of ok status; every entry written to the current generation
\* is the response of such a write; the navigation and sensitive-API
\* handlers start no write, install and activation write no entry, and
\* message handling changes no cache.
C20_CacheHoldsOnlyDefaultPathResponses ==
    /\ [][variant = "security" =>
            /\ \A p \in pendingPuts' \ pendingPuts :
                    /\ h.pc = "fetch" /\ Route(h) = "default"
                    /\ h.req.method = "GET" /\ isSameOrigin(h.req)
                    /\ h.req.mode # "navigate" /\ ~AcceptsHtml(h.req)
                    /\ ~StartsWithApiCalendar(h.req.url.pathname)
                    /\ p = Put(h.cn, h.req.url, h'.net.resp, h.cache)
                    /\ h.cache = Live(CACHE_NAME)
                    /\ ~h'.net.failed /\ Ok(p.resp)
            /\ \A u \in Written :
                    \E p \in pendingPuts \ pendingPuts' :
                        /\ p.name = CACHE_NAME /\ p.url = u
                        /\ EntriesOf(caches', CACHE_NAME)[u] = p.resp
            /\ (h' # h /\ Route(h') \in {"navigation", "api"}) => pendingPuts' = pendingPuts
            /\ swState' # swState => Written = {}]_vars
    /\ [](variant = "security" =>
            \A p \in pendingPuts :
                /\ Ok(p.resp)
                /\ p.url.origin = ALLOWED_ORIGIN
                /\ ~StartsWithApiCalendar(p.url.pathname))
    /\ [][(MessageStep \/ MatchAllStep \/ posted' # posted)
            => (caches' = caches /\ pendingPuts' = pendingPuts)]_vars

\* C20 witness: after a message, the current generation holds one entry, the
\* network's own (unhardened) ok response to the default-path request for /app.js
C20_Witness ==
    /\ variant = "security"
    /\ swState = "activated"
    /\ msgIn.source = "window-1"
    /\ pendingPuts = {}
    /\ DOMAIN EntriesOf(caches, CACHE_NAME) = {Url(ALLOWED_ORIGIN, "/app.js")}
    /\ EntriesOf(caches, CACHE_NAME)[Url(ALLOWED_ORIGIN, "/app.js")].status = 200
    /\ "Server" \in DOMAIN EntriesOf(caches, CACHE_NAME)[Url(ALLOWED_ORIGIN, "/app.js")].headers

====
